---- MODULE Spec2Model ----
(***************************************************************************)
(* Model of the task-resolution core of VerseVisions (src/main.py):        *)
(* MusicGenerator.check_generation_status (endpoint resolver),             *)
(* MusicGenerator.monitor_and_download (task poller),                      *)
(* MusicGenerator.download_music (retry/backoff executor), the recursive   *)
(* extractors find_status / find_audio_url, and the submission path of     *)
(* main() through MusicGenerator.generate_music.                           *)
(*                                                                         *)
(* Specifications:                                                         *)
(*   Spec         one call of monitor_and_download                         *)
(*   MainSpec     main() from the submission on                            *)
(*   DownloadSpec one direct call of download_music                        *)
(*   ExtractSpec  the extractors applied to a tree                         *)
(*   ConcSpec     two concurrent calls of monitor_and_download             *)
(*                                                                         *)
(* JSON values are records [t, n, s, keys, kids]:                          *)
(*   t    : "null" | "num" | "str" | "list" | "dict"                       *)
(*   n    : the number of a "num" (0 otherwise)                            *)
(*   s    : the characters of a "str", as a sequence of 1-char strings     *)
(*   keys : the keys of a "dict", in insertion order                       *)
(*   kids : the values of a "dict" (kids[i] under keys[i]) or the items    *)
(*          of a "list"                                                    *)
(* Python's None and JSON null are the same value, NullV.                  *)
(***************************************************************************)
EXTENDS Integers, Sequences, FiniteSets, TLC

\* ------------------------------------------------------------------ bounds
\* largest max_checks a call of monitor_and_download is given
MaxChecks == 2
\* of the ticks of a call that runs with the default budget, the first
\* DefaultTicksExplored are explored
DefaultTicksExplored == 1

\* ------------------------------------------------------- program constants
\* download_music(..., max_retries=5)
DefaultMaxRetries == 5
\* the success code the resolver and the poller compare with
HTTP_OK == 200
\* "404 might be temporary"
CODE_TRANSIENT == 404
\* monitor_and_download(..., max_checks=30, check_interval=10)
DEFAULT_MAX_CHECKS == 30
DEFAULT_CHECK_INTERVAL == 10

\* -------------------------------------------------------------- JSON values
NullV == [t |-> "null", n |-> 0, s |-> <<>>, keys |-> <<>>, kids |-> <<>>]
Num(x) == [t |-> "num", n |-> x, s |-> <<>>, keys |-> <<>>, kids |-> <<>>]
Str(cs) == [t |-> "str", n |-> 0, s |-> cs, keys |-> <<>>, kids |-> <<>>]
List(items) == [t |-> "list", n |-> 0, s |-> <<>>, keys |-> <<>>, kids |-> items]
Dict(ks, vs) == [t |-> "dict", n |-> 0, s |-> <<>>, keys |-> ks, kids |-> vs]
EmptyDict == Dict(<<>>, <<>>)

\* Python truth value of a JSON value (`if x`, `if not x`)
Truthy(v) ==
    CASE v.t = "null" -> FALSE
      [] v.t = "num"  -> v.n # 0
      [] v.t = "str"  -> v.s # <<>>
      [] v.t = "list" -> v.kids # <<>>
      [] v.t = "dict" -> v.keys # <<>>

\* `key in obj` for a dict
HasKey(obj, key) == \E i \in 1..Len(obj.keys) : obj.keys[i] = key

\* obj[key] for a dict that has the key
Item(obj, key) == obj.kids[CHOOSE i \in 1..Len(obj.keys) : obj.keys[i] = key]

\* obj.get(key, default)
GetOr(obj, key, default) == IF HasKey(obj, key) THEN Item(obj, key) ELSE default

\* obj.get(key)
Get(obj, key) == GetOr(obj, key, NullV)

\* Python `v == k` for an int literal k
EqNum(v, k) == v.t = "num" /\ v.n = k

\* Python `v == 'literal'`
EqStr(v, cs) == v.t = "str" /\ v.s = cs

\* str.startswith(prefix)
StartsWith(cs, prefix) ==
    /\ Len(cs) >= Len(prefix)
    /\ SubSeq(cs, 1, Len(prefix)) = prefix

\* `sub in str`
Contains(cs, sub) ==
    \E i \in 1..(Len(cs) - Len(sub) + 1) : SubSeq(cs, i, i + Len(sub) - 1) = sub

\* the first truthy element of a sequence of results, None when there is none:
\* the `for ...: result = f(v); if result: return result` loops
FirstTruthy(results) ==
    IF \E i \in 1..Len(results) : Truthy(results[i])
    THEN results[CHOOSE i \in 1..Len(results) :
                    /\ Truthy(results[i])
                    /\ \A j \in 1..(i - 1) : ~Truthy(results[j])]
    ELSE NullV


\* ------------------------------------------------------------------ strings
\* str(text): the characters of the string literals the code compares with
S_SUCCESS == <<"S","U","C","C","E","S","S">>
S_FIRST_SUCCESS == <<"F","I","R","S","T","_","S","U","C","C","E","S","S">>
S_PENDING == <<"P","E","N","D","I","N","G">>
S_TEXT_SUCCESS == <<"T","E","X","T","_","S","U","C","C","E","S","S">>
S_CREATE_TASK_FAILED ==
    <<"C","R","E","A","T","E","_","T","A","S","K","_","F","A","I","L","E","D">>
S_GENERATE_AUDIO_FAILED ==
    <<"G","E","N","E","R","A","T","E","_","A","U","D","I","O","_","F","A","I","L","E","D">>
S_CALLBACK_EXCEPTION ==
    <<"C","A","L","L","B","A","C","K","_","E","X","C","E","P","T","I","O","N">>
S_SENSITIVE_WORD_ERROR ==
    <<"S","E","N","S","I","T","I","V","E","_","W","O","R","D","_","E","R","R","O","R">>

\* the keys of SUNO_STATUS
SUNO_STATUS ==
    { S_PENDING, S_TEXT_SUCCESS, S_FIRST_SUCCESS, S_SUCCESS,
      S_CREATE_TASK_FAILED, S_GENERATE_AUDIO_FAILED,
      S_CALLBACK_EXCEPTION, S_SENSITIVE_WORD_ERROR }

\* dict keys are hashed: a list or a dict as key raises TypeError
Hashable(v) == v.t \notin {"list", "dict"}

\* get_status_description: SUNO_STATUS.get(status_code, "Unknown status: ...");
\* "known" stands for the description of a key of SUNO_STATUS
get_status_description(status_code) ==
    IF status_code.t = "str" /\ status_code.s \in SUNO_STATUS
    THEN "known"
    ELSE "Unknown status"

\* --------------------------------------------------------------- extractors
\* the markers of find_audio_url
S_http == <<"h","t","t","p">>
S_mp3 == <<".","m","p","3">>
S_wav == <<".","w","a","v">>
S_audio == <<"/","a","u","d","i","o","/">>

\* faulty variant: the generic key url tried first
AudioKeys_UrlFirst == <<"url", "audioUrl", "audio_url", "mp3Url", "streamUrl">>

\* the aliases of find_audio_url, in the order the code tries them
AudioKeys == <<"audioUrl", "audio_url", "url", "mp3Url", "streamUrl">>

\* faulty variant: any http string taken for an audio URL
ValidAudioUrl_AnyHttp(v) == v.t = "str" /\ StartsWith(v.s, S_http)

\* isinstance(obj[key], str) and obj[key].startswith('http') and
\* ('.mp3' in obj[key] or '.wav' in obj[key] or '/audio/' in obj[key])
ValidAudioUrl(v) ==
    /\ v.t = "str"
    /\ StartsWith(v.s, S_http)
    /\ \/ Contains(v.s, S_mp3)
       \/ Contains(v.s, S_wav)
       \/ Contains(v.s, S_audio)

RECURSIVE find_audio_url(_)
\* MusicGenerator.find_audio_url
find_audio_url(obj) ==
    IF obj.t = "dict"
    THEN LET direct == [i \in 1..Len(AudioKeys) |->
                           IF /\ HasKey(obj, AudioKeys[i])
                              /\ ValidAudioUrl(Item(obj, AudioKeys[i]))
                           THEN Item(obj, AudioKeys[i])
                           ELSE NullV]
         IN  IF \E i \in 1..Len(AudioKeys) : direct[i] # NullV
             THEN direct[CHOOSE i \in 1..Len(AudioKeys) :
                             /\ direct[i] # NullV
                             /\ \A j \in 1..(i - 1) : direct[j] = NullV]
             ELSE FirstTruthy([i \in 1..Len(obj.kids) |-> find_audio_url(obj.kids[i])])
    ELSE IF obj.t = "list"
    THEN FirstTruthy([i \in 1..Len(obj.kids) |-> find_audio_url(obj.kids[i])])
    ELSE NullV

\* an exception in place of a value
RaisedV == [t |-> "raised", n |-> 0, s |-> <<>>, keys |-> <<>>, kids |-> <<>>]

RECURSIVE find_status(_)
\* faulty variant: no isinstance test, `'status' in obj` on whatever obj is:
\* TypeError for a number or None, and obj['status'] TypeError for a list
find_status_NoTypeCheck(obj) ==
    IF obj.t = "dict"
    THEN IF HasKey(obj, "status")
         THEN Item(obj, "status")
         ELSE LET rs == [i \in 1..Len(obj.kids) |-> find_status(obj.kids[i])]
                  stops == {i \in 1..Len(rs) : rs[i].t = "raised" \/ Truthy(rs[i])}
              IN  IF \E i \in stops : rs[i].t = "raised" /\ \A j \in stops : i <= j
                  THEN RaisedV
                  ELSE FirstTruthy(rs)
    ELSE IF obj.t = "str"
    THEN NullV
    ELSE RaisedV

\* find_status, the nested helper of monitor_and_download
find_status(obj) ==
    IF obj.t = "dict"
    THEN IF HasKey(obj, "status")
         THEN Item(obj, "status")
         ELSE FirstTruthy([i \in 1..Len(obj.kids) |-> find_status(obj.kids[i])])
    ELSE IF obj.t = "list"
    THEN FirstTruthy([i \in 1..Len(obj.kids) |-> find_status(obj.kids[i])])
    ELSE NullV

\* faulty variant: the top-level status looked at first
ExtractStatus_TopFirst(td) ==
    LET data == GetOr(td, "data", EmptyDict)
        st1 == Get(td, "status")
        st2 == IF ~Truthy(st1) /\ data.t = "dict" THEN Get(data, "status") ELSE st1
    IN  IF ~Truthy(st2) THEN find_status(td) ELSE st2

\* the status extraction of monitor_and_download: data.status, then the
\* top-level status, then the recursive search
ExtractStatus(td) ==
    LET data == GetOr(td, "data", EmptyDict)
        st1 == IF data.t = "dict" THEN Get(data, "status") ELSE NullV
        st2 == IF ~Truthy(st1) THEN Get(td, "status") ELSE st1
    IN  IF ~Truthy(st2) THEN find_status(td) ELSE st2

\* `if api_code and api_code != 200`
ApiError(code) == Truthy(code) /\ ~EqNum(code, HTTP_OK)

\* faulty variant: 500 taken for a transient code as well
ApiFatal_500Transient(code) ==
    ~(EqNum(code, HTTP_OK) \/ EqNum(code, CODE_TRANSIENT) \/ EqNum(code, 500))

\* faulty variant: 404 not exempted
ApiFatal_Only200(code) == ~EqNum(code, HTTP_OK)

\* `if api_code not in [200, 404]`
ApiFatal(code) == ~(EqNum(code, HTTP_OK) \/ EqNum(code, CODE_TRANSIENT))

\* faulty variant: TEXT_SUCCESS taken for a success-class status
IsSuccessClass_TextToo(st) ==
    EqStr(st, S_SUCCESS) \/ EqStr(st, S_FIRST_SUCCESS) \/ EqStr(st, S_TEXT_SUCCESS)

\* `status == 'SUCCESS' or status == 'FIRST_SUCCESS'`
IsSuccessClass(st) == EqStr(st, S_SUCCESS) \/ EqStr(st, S_FIRST_SUCCESS)

\* faulty variant: SENSITIVE_WORD_ERROR left out of the failed statuses
IsFailedClass_NoSensitive(st) ==
    \/ EqStr(st, S_CREATE_TASK_FAILED)
    \/ EqStr(st, S_GENERATE_AUDIO_FAILED)
    \/ EqStr(st, S_CALLBACK_EXCEPTION)

\* faulty variant: every status that is not a documented non-failure fails the task
IsFailedClass_FailClosed(st) ==
    ~(\/ EqStr(st, S_SUCCESS) \/ EqStr(st, S_FIRST_SUCCESS)
      \/ EqStr(st, S_PENDING) \/ EqStr(st, S_TEXT_SUCCESS))

\* `status in ['CREATE_TASK_FAILED', 'GENERATE_AUDIO_FAILED',
\*             'CALLBACK_EXCEPTION', 'SENSITIVE_WORD_ERROR']`
IsFailedClass(st) ==
    \/ EqStr(st, S_CREATE_TASK_FAILED)
    \/ EqStr(st, S_GENERATE_AUDIO_FAILED)
    \/ EqStr(st, S_CALLBACK_EXCEPTION)
    \/ EqStr(st, S_SENSITIVE_WORD_ERROR)

\* `status in ['PENDING', 'TEXT_SUCCESS']`
IsPendingClass(st) == EqStr(st, S_PENDING) \/ EqStr(st, S_TEXT_SUCCESS)

\* ------------------------------------------------- the upstream's answers
\* an audio URL that passes the filter, and the placeholder callback URL of
\* generate_music, which does not
U_mp3 == <<"h","t","t","p",":","/","/","x","/","y",".","m","p","3">>
U_callback ==
    <<"h","t","t","p","s",":","/","/","e","x","a","m","p","l","e",".","c","o","m",
      "/","c","a","l","l","b","a","c","k">>
S_done == <<"d","o","n","e">>

Opt(cond, x) == IF cond THEN <<x>> ELSE <<>>

\* a status response: an optional top-level code; a status under data, at the
\* top level or nested deeper (sp); an URL under data.results[0].audioUrl or
\* under the top-level key url (up)
MkBody(code, sp, st, up, u) ==
    LET dk == Opt(sp = "data", "status") \o Opt(sp = "deep", "response")
                 \o Opt(up = "results", "results")
        dv == Opt(sp = "data", st) \o Opt(sp = "deep", Dict(<<"status">>, <<st>>))
                 \o Opt(up = "results", List(<<Dict(<<"audioUrl">>, <<u>>)>>))
        tk == Opt(code # NullV, "code") \o Opt(sp = "top", "status")
                 \o Opt(up = "top", "url") \o Opt(dk # <<>>, "data")
        tv == Opt(code # NullV, code) \o Opt(sp = "top", st)
                 \o Opt(up = "top", u) \o Opt(dk # <<>>, Dict(dk, dv))
    IN  Dict(tk, tv)

Codes == {NullV, Num(0), Num(HTTP_OK), Num(CODE_TRANSIENT), Num(500)}
StatusValues == {Str(cs) : cs \in SUNO_STATUS} \cup {Str(S_done), Str(<<>>)}
UrlValues == {Str(U_mp3), Str(U_callback)}

\* bodies with a status at the top level and another under data (the second
\* with an URL, the third with an empty data.status), and one with a null data
BothStatusBodies ==
    { Dict(<<"status", "data">>, <<Str(S_SUCCESS), Dict(<<"status">>, <<Str(S_PENDING)>>)>>),
      Dict(<<"status", "data">>,
           <<Str(S_PENDING),
             Dict(<<"status", "results">>,
                  <<Str(S_SUCCESS), List(<<Dict(<<"audioUrl">>, <<Str(U_mp3)>>)>>)>>)>>),
      Dict(<<"status", "data">>, <<Str(S_CREATE_TASK_FAILED), Dict(<<"status">>, <<Str(<<>>)>>)>>),
      Dict(<<"status", "data">>, <<Str(S_PENDING), NullV>>) }

\* the JSON bodies a 200 answer may carry: every status value under
\* data.status with every code, with and without a valid URL under
\* data.results; a success-class status with only the callback URL; a status
\* at the top level, nested deeper or absent, with a valid URL at either
\* place; null; a top-level list; and a dict whose status is a list
Bodies ==
    { MkBody(c, "data", st, up, Str(U_mp3)) :
        c \in Codes, st \in StatusValues, up \in {"none", "results"} }
    \cup { MkBody(NullV, "data", Str(cs), up, Str(U_callback)) :
        cs \in {S_SUCCESS, S_FIRST_SUCCESS}, up \in {"results", "top"} }
    \cup { MkBody(c, sp, st, up, Str(U_mp3)) :
        c \in {NullV, Num(CODE_TRANSIENT)}, sp \in {"none", "top", "deep"},
        st \in {Str(S_SUCCESS), Str(S_CREATE_TASK_FAILED), Str(S_done)},
        up \in {"none", "results", "top"} }
    \cup { NullV,
           List(<<Dict(<<"status">>, <<Str(S_SUCCESS)>>)>>),
           Dict(<<"status">>, <<List(<<Str(S_SUCCESS)>>)>>) }
    \cup BothStatusBodies

\* the bodies the alternate endpoints answer with: one of each kind
AltBodies ==
    { MkBody(c, "data", Str(cs), "results", Str(U_mp3)) :
        c \in {NullV, Num(500)}, cs \in {S_SUCCESS, S_PENDING, S_GENERATE_AUDIO_FAILED} }
    \cup { EmptyDict }

\* what one requests.get can do: raise RequestException, or answer with a
\* status code and (for 200) a JSON body
HttpAnswers(i) ==
    { [kind |-> "neterr", status_code |-> 0, body |-> NullV] }
    \cup { [kind |-> "resp", status_code |-> c, body |-> NullV] : c \in {404, 500} }
    \cup { [kind |-> "resp", status_code |-> HTTP_OK, body |-> b] :
             b \in IF i = 1 THEN Bodies ELSE AltBodies }

\* faulty variant: the legacy status endpoint asked before the documented one
Endpoints_StatusFirst ==
    << "generate/status?taskId=", "generate/record-info?taskId=",
       "generate/result?taskId=", "task/", "generate/" >>

\* the candidate status URLs of check_generation_status (path after the base
\* URL), the primary endpoint first, then alternate_endpoints in list order
Endpoints ==
    << "generate/record-info?taskId=", "generate/status?taskId=",
       "generate/result?taskId=", "task/", "generate/" >>

\* ------------------------------------------------------------------- state
VARIABLES
    pc,                \* where the call of monitor_and_download stands
    task_id, max_checks, check_interval, title, \* its arguments
    dalle_enabled,     \* self.dalle_enabled
    last_task_id_txt,  \* the resume file: <<>> when absent, <<content>> else
    checks,            \* the attempt counter
    endpoint,          \* index of the candidate check_generation_status asks next
    requested,         \* the candidates asked in the current resolve pass
    answers,           \* what each of them did: [kind, ok, body], ok: status_code == 200
    task_details,      \* the result of check_generation_status
    api_code, status, audio_url, \* locals of the current tick
    path,              \* the branch the last tick took
    retry_count,       \* download_music's counter
    max_retries,       \* download_music's parameter
    output_file,       \* the file at output_path: "absent", "empty" or "nonempty"
    outcome,           \* what the last download attempt did; "none" before the first
    audio_success,     \* what download_music returned
    main_pc,           \* where main() stands; "none" when main is not the caller
    music_gen_response, \* main's local: what generate_music returned
    submit_answer,     \* what the submit endpoint did, as generate_music saw it
    payload,           \* the title and customMode of the payload generate_music posts
    cli,               \* main's inputs: the parsed command line and the lyrics title
    other,             \* a second, independent call of monitor_and_download
    sleeps,            \* the arguments of every time.sleep so far, in order
    calls,             \* how often each operation has run so far
    ret, return_site   \* the value returned and the return statement taken

vars ==
    << pc, task_id, max_checks, check_interval, title, dalle_enabled,
       last_task_id_txt, checks, endpoint, requested, answers, task_details,
       api_code, status, audio_url, path, retry_count, max_retries,
       output_file, outcome, audio_success, main_pc, music_gen_response, submit_answer, payload,
       cli,
       other,
       sleeps, calls, ret, return_site >>

args == << task_id, max_checks, check_interval, title, dalle_enabled >>
tick_locals == << api_code, status, audio_url >>
resolver == << endpoint, requested, answers >>
download_locals == << retry_count, max_retries, output_file, outcome, audio_success >>
main_locals == << main_pc, music_gen_response, submit_answer, payload, cli >>

T_abc123 == << "a", "b", "c", "1", "2", "3" >>
TaskIds == {T_abc123}
CheckIntervals == {5, 10}
Titles == { <<>>, << "S", "o", "n", "g" >> }

NoCalls ==
    [ status_check |-> 0, http_get |-> 0, status_extract |-> 0, url_search |-> 0,
      download |-> 0, download_attempt |-> 0, images |-> 0, submit |-> 0,
      lyrics |-> 0 ]

Bump(c, op) == [c EXCEPT ![op] = @ + 1]

\* main() is not running
NoCli ==
    [ checks |-> 0, interval |-> 0, lyrics_title |-> <<>>, custom |-> FALSE,
      skip_images |-> FALSE, check_task |-> <<>>, theme |-> FALSE ]

\* generate_music has not built its payload
NoPayload == [ built |-> FALSE, title |-> <<>>, customMode |-> FALSE ]

\* no submit request has been answered
NoAnswer == [kind |-> "none", status_code |-> 0, body |-> NullV]

\* no second call of monitor_and_download is running
NoOther == [ pc |-> "absent", task_id |-> <<>>, checks |-> 0 ]

\* a MusicGenerator has been constructed and monitor_and_download is about to
\* be called with these arguments
Init ==
    /\ pc = "start"
    /\ task_id \in TaskIds
    /\ max_checks \in 0..MaxChecks
    /\ check_interval \in CheckIntervals
    /\ title \in Titles
    /\ dalle_enabled \in BOOLEAN
    /\ last_task_id_txt = <<>>
    /\ checks = 0
    /\ endpoint = 1
    /\ requested = <<>>
    /\ answers = <<>>
    /\ task_details = NullV
    /\ api_code = NullV
    /\ status = NullV
    /\ audio_url = NullV
    /\ path = "none"
    /\ retry_count = 0
    /\ max_retries = 0
    /\ output_file = "absent"
    /\ outcome = "none"
    /\ audio_success = FALSE
    /\ main_pc = "none"
    /\ music_gen_response = NullV
    /\ submit_answer = NoAnswer
    /\ payload = NoPayload
    /\ cli = NoCli
    /\ other = NoOther
    /\ sleeps = <<>>
    /\ calls = NoCalls
    /\ ret = FALSE
    /\ return_site = "none"

\* ----------------------------------------------------- monitor_and_download
\* the values of the three `return False` of monitor_and_download: after an
\* API error code, after an explicitly-failed status, after the loop
RET_API_ERROR == FALSE
RET_TASK_FAILED == FALSE
RET_EXHAUSTED == FALSE

\* faulty variant: the file is opened for appending
Enter_AppendsHandle ==
    /\ pc = "start"
    /\ last_task_id_txt' = Append(last_task_id_txt, task_id)
    /\ checks' = 0
    /\ pc' = "loop"
    /\ UNCHANGED << args, main_locals, other, resolver, task_details, tick_locals,
                    path, download_locals, sleeps, calls, ret, return_site >>

\* faulty variant: the task id is not saved
Enter_NoResumeFile ==
    /\ pc = "start"
    /\ checks' = 0
    /\ pc' = "loop"
    /\ UNCHANGED << args, main_locals, other, last_task_id_txt, resolver,
                    task_details, tick_locals, path, download_locals, sleeps,
                    calls, ret, return_site >>

\* entry: the task id is written to last_task_id.txt, checks = 0
Enter ==
    /\ pc = "start"
    /\ last_task_id_txt' = <<task_id>>
    /\ checks' = 0
    /\ pc' = "loop"
    /\ UNCHANGED << args, main_locals, other, resolver, task_details, tick_locals, path,
                    download_locals, sleeps, calls, ret, return_site >>

\* faulty variant: one tick too many
LoopGuard_OffByOne == checks <= max_checks

\* `while checks < max_checks`
LoopGuard == checks < max_checks

\* loop head, budget left: check_generation_status(task_id) is called. The
\* locals of the previous tick are dead from here on (each is assigned again
\* before it is read) and are cleared.
BeginCheck ==
    /\ pc = "loop"
    /\ LoopGuard
    /\ (max_checks = DEFAULT_MAX_CHECKS) => (checks < DefaultTicksExplored)
    /\ pc' = "request"
    /\ endpoint' = 1
    /\ requested' = <<>>
    /\ answers' = <<>>
    /\ task_details' = NullV
    /\ api_code' = NullV
    /\ status' = NullV
    /\ audio_url' = NullV
    /\ path' = "none"
    /\ calls' = Bump(calls, "status_check")
    /\ UNCHANGED << args, main_locals, other, last_task_id_txt, checks, download_locals, sleeps,
                    ret, return_site >>

\* faulty variant: the resume file is removed when the budget is used up
Exhausted_RemovesResumeFile ==
    /\ pc = "loop"
    /\ ~LoopGuard
    /\ pc' = "done"
    /\ ret' = RET_EXHAUSTED
    /\ return_site' = "exhausted"
    /\ last_task_id_txt' = <<>>
    /\ UNCHANGED << args, main_locals, other, checks, resolver, task_details,
                    tick_locals, path, download_locals, sleeps, calls >>

\* loop exit: "Exceeded maximum checks", return False
Exhausted ==
    /\ pc = "loop"
    /\ ~LoopGuard
    /\ pc' = "done"
    /\ ret' = RET_EXHAUSTED
    /\ return_site' = "exhausted"
    /\ UNCHANGED << args, main_locals, other, last_task_id_txt, checks, resolver, task_details,
                    tick_locals, path, download_locals, sleeps, calls >>

\* --------------------------------------------------- check_generation_status
\* what the resolver does after the answer r of candidate i:
\* "return" the body, "next" candidate, or "none" (return None)
AfterAnswer(i, r) ==
    IF r.kind = "neterr" THEN "none"
    ELSE IF r.status_code = HTTP_OK THEN "return"
    ELSE IF i < Len(Endpoints) THEN "next"
    ELSE "none"

\* one requests.get of check_generation_status, to candidate `endpoint`
Request ==
    /\ pc = "request"
    /\ \E r \in HttpAnswers(endpoint) :
        LET todo == AfterAnswer(endpoint, r) IN
        /\ requested' = Append(requested, Endpoints[endpoint])
        /\ answers' = Append(answers, [kind |-> r.kind, ok |-> r.status_code = HTTP_OK,
                                     body |-> r.body])
        /\ calls' = Bump(calls, "http_get")
        /\ IF todo = "next"
           THEN /\ endpoint' = endpoint + 1
                /\ pc' = "request"
                /\ task_details' = task_details
           ELSE /\ endpoint' = endpoint
                /\ pc' = "tick"
                /\ task_details' = IF todo = "return" THEN r.body ELSE NullV
    /\ UNCHANGED << args, main_locals, other, last_task_id_txt, checks, tick_locals, path,
                    download_locals, sleeps, ret, return_site >>

\* --------------------------------------------------------- the tick's body
\* faulty variant: the counter is advanced twice in a tick
NextTick_DoubleIncrement ==
    /\ checks' = checks + 2
    /\ sleeps' = Append(sleeps, check_interval)
    /\ pc' = "loop"

\* `checks += 1` and `time.sleep(check_interval)`, back to the loop head
NextTick ==
    /\ checks' = checks + 1
    /\ sleeps' = Append(sleeps, check_interval)
    /\ pc' = "loop"

\* faulty variant: no task details ends the call, as in check_status.py
TickNoDetails_ReturnsFalse ==
    /\ pc = "tick"
    /\ ~Truthy(task_details)
    /\ pc' = "done"
    /\ ret' = FALSE
    /\ return_site' = "no_details"
    /\ path' = "no_details"
    /\ UNCHANGED << args, main_locals, other, last_task_id_txt, checks, resolver, task_details,
                    tick_locals, download_locals, sleeps, calls >>

\* `if not task_details`: wait and retry
TickNoDetails ==
    /\ pc = "tick"
    /\ ~Truthy(task_details)
    /\ NextTick
    /\ path' = "no_details"
    /\ UNCHANGED << args, main_locals, other, last_task_id_txt, resolver, task_details, tick_locals,
                    download_locals, calls, ret, return_site >>

\* an exception escapes monitor_and_download: task_details.get on a value
\* that is no dict (AttributeError), or SUNO_STATUS.get on an unhashable
\* status (TypeError)
TickRaises ==
    /\ pc = "tick"
    /\ Truthy(task_details)
    /\ \/ /\ task_details.t # "dict"
          /\ UNCHANGED << tick_locals, calls >>
       \/ /\ task_details.t = "dict"
          /\ LET code == Get(task_details, "code")
                 st == ExtractStatus(task_details)
             IN  /\ ~(ApiError(code) /\ ApiFatal(code))
                 /\ ~Hashable(st)
                 /\ api_code' = code
                 /\ status' = st
                 /\ audio_url' = audio_url
                 /\ calls' = Bump(calls, "status_extract")
    /\ pc' = "crashed"
    /\ path' = "raised"
    /\ UNCHANGED << args, main_locals, other, last_task_id_txt, checks, resolver, task_details,
                    download_locals, sleeps, ret, return_site >>

\* `if api_code and api_code != 200` ... `if api_code not in [200, 404]:
\* return False`
TickApiError ==
    /\ pc = "tick"
    /\ Truthy(task_details)
    /\ task_details.t = "dict"
    /\ LET code == Get(task_details, "code")
       IN  /\ ApiError(code)
           /\ ApiFatal(code)
           /\ api_code' = code
    /\ pc' = "done"
    /\ ret' = RET_API_ERROR
    /\ return_site' = "api_error"
    /\ path' = "api_error"
    /\ UNCHANGED << args, main_locals, other, last_task_id_txt, checks, resolver, task_details,
                    status, audio_url, download_locals, sleeps, calls >>

\* the tick gets past the error-code check and the status is extracted
Extracted(code, st) ==
    /\ pc = "tick"
    /\ Truthy(task_details)
    /\ task_details.t = "dict"
    /\ code = Get(task_details, "code")
    /\ ~(ApiError(code) /\ ApiFatal(code))
    /\ st = ExtractStatus(task_details)
    /\ Hashable(st)

\* faulty variant: download_music is handed the URL variable as it was before
\* this tick searched the response
TickDownload_StaleUrl ==
    /\ \E code \in {Get(task_details, "code")}, st \in {ExtractStatus(task_details)} :
        /\ Extracted(code, st)
        /\ IsSuccessClass(st)
        /\ LET url == find_audio_url(task_details)
           IN  /\ Truthy(url)
               /\ audio_url' = audio_url
        /\ api_code' = code
        /\ status' = st
    /\ calls' = Bump(Bump(Bump(calls, "status_extract"), "url_search"), "download")
    /\ retry_count' = 0
    /\ max_retries' = DefaultMaxRetries
    /\ UNCHANGED << output_file, outcome, audio_success >>
    /\ pc' = "download"
    /\ path' = "download"
    /\ UNCHANGED << args, main_locals, other, last_task_id_txt, checks, resolver, task_details,
                    sleeps, ret, return_site >>

\* success-class status and an audio URL found: download_music is called
TickDownload ==
    /\ \E code \in {Get(task_details, "code")}, st \in {ExtractStatus(task_details)} :
        /\ Extracted(code, st)
        /\ IsSuccessClass(st)
        /\ LET url == find_audio_url(task_details)
           IN  /\ Truthy(url)
               /\ audio_url' = url
        /\ api_code' = code
        /\ status' = st
    /\ calls' = Bump(Bump(Bump(calls, "status_extract"), "url_search"), "download")
    /\ retry_count' = 0
    /\ max_retries' = DefaultMaxRetries
    /\ UNCHANGED << output_file, outcome, audio_success >>
    /\ pc' = "download"
    /\ path' = "download"
    /\ UNCHANGED << args, main_locals, other, last_task_id_txt, checks, resolver, task_details,
                    sleeps, ret, return_site >>

\* faulty variant: a success-class status without an audio URL ends the call, as in
\* check_status.py
TickNoUrl_ReturnsFalse ==
    /\ \E code \in {Get(task_details, "code")}, st \in {ExtractStatus(task_details)} :
        /\ Extracted(code, st)
        /\ IsSuccessClass(st)
        /\ LET url == find_audio_url(task_details)
           IN  /\ ~Truthy(url)
               /\ audio_url' = url
        /\ api_code' = code
        /\ status' = st
    /\ calls' = Bump(Bump(calls, "status_extract"), "url_search")
    /\ pc' = "done"
    /\ ret' = FALSE
    /\ return_site' = "no_url"
    /\ path' = "no_url"
    /\ UNCHANGED << args, main_locals, other, last_task_id_txt, checks, resolver, task_details,
                    download_locals, sleeps >>

\* success-class status but no audio URL: "No audio URL found in the
\* response", on to the next tick
TickNoUrl ==
    /\ \E code \in {Get(task_details, "code")}, st \in {ExtractStatus(task_details)} :
        /\ Extracted(code, st)
        /\ IsSuccessClass(st)
        /\ LET url == find_audio_url(task_details)
           IN  /\ ~Truthy(url)
               /\ audio_url' = url
        /\ api_code' = code
        /\ status' = st
    /\ calls' = Bump(Bump(calls, "status_extract"), "url_search")
    /\ NextTick
    /\ path' = "no_url"
    /\ UNCHANGED << args, main_locals, other, last_task_id_txt, resolver, task_details,
                    download_locals, ret, return_site >>

\* explicitly-failed status: "Task failed", return False
TickFailed ==
    /\ \E code \in {Get(task_details, "code")}, st \in {ExtractStatus(task_details)} :
        /\ Extracted(code, st)
        /\ ~IsSuccessClass(st)
        /\ IsFailedClass(st)
        /\ api_code' = code
        /\ status' = st
    /\ calls' = Bump(calls, "status_extract")
    /\ pc' = "done"
    /\ ret' = RET_TASK_FAILED
    /\ return_site' = "task_failed"
    /\ path' = "task_failed"
    /\ UNCHANGED << args, main_locals, other, last_task_id_txt, checks, resolver, task_details,
                    audio_url, download_locals, sleeps >>

\* PENDING / TEXT_SUCCESS ("still processing"), or a status none of the
\* branches names: on to the next tick
TickPending ==
    /\ \E code \in {Get(task_details, "code")}, st \in {ExtractStatus(task_details)} :
        /\ Extracted(code, st)
        /\ ~IsSuccessClass(st)
        /\ ~IsFailedClass(st)
        /\ path' = IF IsPendingClass(st) THEN "pending" ELSE "other"
        /\ api_code' = code
        /\ status' = st
    /\ calls' = Bump(calls, "status_extract")
    /\ NextTick
    /\ UNCHANGED << args, main_locals, other, last_task_id_txt, resolver, task_details,
                    audio_url, download_locals, ret, return_site >>

\* ------------------------------------------------------------ download_music
\* the file at output_path
FileStates == {"absent", "empty", "nonempty"}

\* what one download attempt can do: complete with a non-empty file ("ok"),
\* complete with a zero-byte file ("empty"), or raise
DownloadOutcomes == {"ok", "empty", "raise"}

\* the file an attempt leaves behind. An attempt that raises before
\* open(output_path, 'wb') leaves the file as it was; one that raises while
\* the chunks are written leaves a partial, non-empty file
FileAfter(o, f) ==
    IF o = "ok" THEN {"nonempty"}
    ELSE IF o = "empty" THEN {"empty"}
    ELSE {f, "nonempty"}

\* faulty variant: the size of the file is not looked at
AttemptSucceeds_AnyFile(o, f) == o \in {"ok", "empty"}

\* the attempt completed without raising and `os.path.exists(output_path)
\* and os.path.getsize(output_path) > 0`
AttemptSucceeds(o, f) == o # "raise" /\ f = "nonempty"

\* faulty variant: the wait grows by one second per retry
WaitTime_Linear(n) == n + 1

\* `wait_time = 2 ** retry_count`
WaitTime(n) == 2 ^ n

\* faulty variant: no sleep after the last failed attempt
DownloadAttempt_NoSleepAfterLast ==
    /\ pc = "download"
    /\ retry_count < max_retries
    /\ \E o \in DownloadOutcomes :
       \E f \in FileAfter(o, output_file) :
        /\ output_file' = f
        /\ outcome' = o
        /\ calls' = Bump(calls, "download_attempt")
        /\ IF AttemptSucceeds(o, f)
           THEN /\ audio_success' = TRUE
                /\ pc' = "downloaded"
                /\ UNCHANGED << retry_count, sleeps >>
           ELSE /\ sleeps' = IF retry_count + 1 < max_retries
                              THEN Append(sleeps, WaitTime(retry_count))
                              ELSE sleeps
                /\ retry_count' = retry_count + 1
                /\ UNCHANGED << pc, audio_success >>
    /\ UNCHANGED << args, main_locals, other, last_task_id_txt, checks, resolver,
                    task_details, tick_locals, path, max_retries, ret, return_site >>

\* one pass of `while retry_count < max_retries`: return True, or sleep and
\* count the retry
DownloadAttempt ==
    /\ pc = "download"
    /\ retry_count < max_retries
    /\ \E o \in DownloadOutcomes :
       \E f \in FileAfter(o, output_file) :
        /\ output_file' = f
        /\ outcome' = o
        /\ calls' = Bump(calls, "download_attempt")
        /\ IF AttemptSucceeds(o, f)
           THEN /\ audio_success' = TRUE
                /\ pc' = "downloaded"
                /\ UNCHANGED << retry_count, sleeps >>
           ELSE /\ sleeps' = Append(sleeps, WaitTime(retry_count))
                /\ retry_count' = retry_count + 1
                /\ UNCHANGED << pc, audio_success >>
    /\ UNCHANGED << args, main_locals, other, last_task_id_txt, checks, resolver,
                    task_details, tick_locals, path, max_retries, ret, return_site >>

\* the retries are used up: download_music returns False
DownloadGivesUp ==
    /\ pc = "download"
    /\ ~(retry_count < max_retries)
    /\ audio_success' = FALSE
    /\ pc' = "downloaded"
    /\ UNCHANGED << args, main_locals, other, last_task_id_txt, checks, resolver,
                    task_details, tick_locals, path, retry_count, max_retries,
                    output_file, outcome, sleeps, calls, ret, return_site >>

\* faulty variant: a failed download goes back to polling, as download_song.py
\* does ("Download failed. Will retry on next check.")
AfterDownload_RepollOnFailure ==
    /\ pc = "downloaded"
    /\ path = "download"
    /\ IF audio_success
       THEN /\ pc' = "done"
            /\ ret' = audio_success
            /\ return_site' = "download"
            /\ UNCHANGED << checks, sleeps >>
       ELSE /\ pc' = "loop"
            /\ checks' = checks + 1
            /\ sleeps' = Append(sleeps, check_interval)
            /\ UNCHANGED << ret, return_site >>
    /\ calls' = IF audio_success /\ dalle_enabled /\ title # <<>>
                THEN Bump(calls, "images")
                ELSE calls
    /\ UNCHANGED << args, main_locals, other, last_task_id_txt, resolver,
                    task_details, tick_locals, path, download_locals >>

\* download_music has returned audio_success to monitor_and_download:
\* generate_images_with_dalle when audio_success and self.dalle_enabled and
\* title, then `return audio_success`
AfterDownload ==
    /\ pc = "downloaded"
    /\ path = "download"
    /\ pc' = "done"
    /\ ret' = audio_success
    /\ return_site' = "download"
    /\ calls' = IF audio_success /\ dalle_enabled /\ title # <<>>
                THEN Bump(calls, "images")
                ELSE calls
    /\ UNCHANGED << args, main_locals, other, last_task_id_txt, checks, resolver,
                    task_details, tick_locals, path, download_locals, sleeps >>

Next ==
    \/ Enter
    \/ BeginCheck
    \/ Exhausted
    \/ Request
    \/ TickNoDetails
    \/ TickRaises
    \/ TickApiError
    \/ TickDownload
    \/ TickNoUrl
    \/ TickFailed
    \/ TickPending
    \/ DownloadAttempt
    \/ DownloadGivesUp
    \/ AfterDownload

Spec == Init /\ [][Next]_vars

\* every HTTP call, sleep and download attempt comes back in finite time:
\* the call keeps taking steps while it can
FairInit ==
    /\ Init
    /\ max_checks <= 1
    /\ check_interval = 10
    /\ title = <<>>
    /\ ~dalle_enabled

FairSpec == FairInit /\ [][Next]_vars /\ WF_vars(Next)

\* ------------------------------------- download_music / download_file alone
\* the largest max_retries a direct call is given
MaxRetries == 4

U_wav == << "h","t","t","p",":","/","/","x","/","y",".","w","a","v" >>

\* download_music(audio_url, output_path, max_retries) is about to run; the
\* output file may be there from an earlier run. download_file of
\* download_song.py is the same loop
DownloadInit ==
    /\ pc = "download"
    /\ task_id \in TaskIds
    /\ max_checks = 0
    /\ check_interval = 10
    /\ title = <<>>
    /\ dalle_enabled = FALSE
    /\ last_task_id_txt = <<>>
    /\ checks = 0
    /\ endpoint = 1
    /\ requested = <<>>
    /\ answers = <<>>
    /\ task_details = NullV
    /\ api_code = NullV
    /\ status = NullV
    /\ audio_url \in {Str(U_mp3), Str(U_wav)}
    /\ path = "none"
    /\ retry_count = 0
    /\ max_retries \in 0..MaxRetries
    /\ output_file \in FileStates
    /\ outcome = "none"
    /\ audio_success = FALSE
    /\ main_pc = "none"
    /\ music_gen_response = NullV
    /\ submit_answer = NoAnswer
    /\ payload = NoPayload
    /\ cli = NoCli
    /\ other = NoOther
    /\ sleeps = <<>>
    /\ calls = Bump(NoCalls, "download")
    /\ ret = FALSE
    /\ return_site = "none"

DownloadNext ==
    \/ DownloadAttempt
    \/ DownloadGivesUp

DownloadSpec == DownloadInit /\ [][DownloadNext]_vars

\* ================================================================== claims
\* the status vocabulary, as the claims name it
SuccessClass == {Str(S_SUCCESS), Str(S_FIRST_SUCCESS)}
FailedClass ==
    { Str(S_CREATE_TASK_FAILED), Str(S_GENERATE_AUDIO_FAILED),
      Str(S_CALLBACK_EXCEPTION), Str(S_SENSITIVE_WORD_ERROR) }
KnownStatuses ==
    SuccessClass \cup FailedClass \cup {Str(S_PENDING), Str(S_TEXT_SUCCESS)}

\* a string that begins with http and holds .mp3, .wav or /audio/
LooksLikeAudioUrl(v) ==
    /\ v.t = "str"
    /\ Len(v.s) >= 4
    /\ <<v.s[1], v.s[2], v.s[3], v.s[4]>> = <<"h","t","t","p">>
    /\ \E i \in 1..Len(v.s) :
          \/ /\ i + 3 <= Len(v.s)
             /\ <<v.s[i], v.s[i+1], v.s[i+2], v.s[i+3]>> \in
                   { <<".","m","p","3">>, <<".","w","a","v">> }
          \/ /\ i + 6 <= Len(v.s)
             /\ SubSeq(v.s, i, i + 6) = <<"/","a","u","d","i","o","/">>

\* the current step is a tick that extracted a status
ExtractsStatus == pc = "tick" /\ calls'.status_extract = calls.status_extract + 1

\* the current step leaves the poller in Polling: one attempt consumed, one
\* interval slept, nothing returned, back at the loop head
StaysPolling ==
    /\ pc' = "loop"
    /\ checks' = checks + 1
    /\ sleeps' = Append(sleeps, check_interval)
    /\ UNCHANGED << ret, return_site >>
    /\ calls'.download = calls.download

\* C1: a download is started, and True returned, only in a tick whose
\* response carried SUCCESS or FIRST_SUCCESS and from which an audio URL was
\* extracted; without such a tick no download starts and True is never
\* returned
C1_SucceededOnlyWithUrl ==
    /\ (pc = "download" \/ calls.download > 0) =>
          /\ status \in SuccessClass
          /\ LooksLikeAudioUrl(audio_url)
          /\ path = "download"
    /\ ret = TRUE => (pc = "done" /\ return_site = "download" /\ calls.download = 1)

C1_Witness ==
    /\ pc = "done"
    /\ ret = TRUE
    /\ status = Str(S_FIRST_SUCCESS)
    /\ audio_url = Str(U_mp3)

\* C2 as stated: the value returned on exhaustion differs from the value
\* returned for an explicitly-failed status
C2_ExhaustedValueDiffers ==
    (pc = "done" /\ return_site = "exhausted" /\ checks > 0 /\ path = "pending")
        => ret # RET_TASK_FAILED

\* C2, amended: when the counter reaches max_checks with the task still
\* non-terminal the call ends through the loop exit, not through the failure
\* branch, and returns False, the value an explicitly-failed status returns
\* too
C2_ExhaustedReturnsFalse ==
    /\ (pc = "done" /\ return_site = "exhausted") =>
          /\ checks = max_checks
          /\ status \notin FailedClass
          /\ path \in {"none", "no_details", "no_url", "pending", "other"}
          /\ ret = FALSE
    /\ (pc = "done" /\ return_site = "task_failed") =>
          /\ status \in FailedClass
          /\ ret = FALSE

C2_Witness ==
    /\ pc = "done"
    /\ return_site = "exhausted"
    /\ max_checks = 2
    /\ status = Str(S_PENDING)

\* C3: a tick whose extracted status is one of the four failed statuses
\* returns False in that same step, with no sleep, no download and no
\* further request; nothing happens after the return
C3_FailedIsTerminal ==
    [][ /\ (ExtractsStatus /\ status' \in FailedClass) =>
              /\ pc' = "done"
              /\ ret' = FALSE
              /\ return_site' = "task_failed"
              /\ UNCHANGED << sleeps, checks >>
              /\ calls'.download = calls.download
              /\ calls'.http_get = calls.http_get
              /\ calls'.status_check = calls.status_check
        /\ pc = "done" => UNCHANGED vars ]_vars

C3_Witness ==
    /\ pc = "done"
    /\ return_site = "task_failed"
    /\ status = Str(S_CREATE_TASK_FAILED)
    /\ checks = 0
    /\ calls.status_check = 1
    /\ sleeps = <<>>

\* C4: a tick whose extracted status is a string outside SUNO_STATUS, or
\* that finds no status at all, stays in Polling: one attempt, one interval,
\* no return
C4_UnknownStaysPolling ==
    [][ (ExtractsStatus /\ status' \notin KnownStatuses /\ status'.t \in {"str", "null"})
            => StaysPolling ]_vars

C4_Witness ==
    /\ pc = "loop"
    /\ path = "other"
    /\ status = Str(S_done)
    /\ checks = 1
    /\ sleeps = <<check_interval>>

\* every candidate of the resolve pass answered with a code other than 200
AllCandidatesNon200 ==
    /\ Len(answers) = 5
    /\ \A i \in 1..5 : answers[i].kind = "resp" /\ ~answers[i].ok

\* C5: when all five candidates answer non-200 the resolver returns None and
\* the tick stays in Polling: one attempt, one interval, no return
C5_AllFailedStaysPolling ==
    [][ (pc = "tick" /\ AllCandidatesNon200) =>
            (task_details = NullV /\ StaysPolling) ]_vars

C5_Witness ==
    /\ pc = "loop"
    /\ path = "no_details"
    /\ AllCandidatesNon200
    /\ checks = 2
    /\ Len(sleeps) = 2

\* C6 as stated: after a network error on a candidate that is not the last,
\* the resolve pass still asks the candidates after it
C6_NetErrorTriesNext ==
    \A i \in 1..Len(answers) :
        (answers[i].kind = "neterr" /\ i < 5) => Len(requested) > i

\* C7: the candidates are asked in the order record-info, status, result,
\* task/{id}, generate/{id}, each at most once; no candidate is asked after
\* one answered 200, and the pass returns that candidate's body
C7_OrderedFirst200 ==
    /\ Len(requested) <= 5
    /\ requested = SubSeq(<< "generate/record-info?taskId=", "generate/status?taskId=",
                             "generate/result?taskId=", "task/", "generate/" >>,
                          1, Len(requested))
    /\ Len(answers) = Len(requested)
    /\ \A i \in 1..Len(answers) : answers[i].ok => i = Len(answers)
    /\ (pc # "request" /\ Len(answers) > 0 /\ answers[Len(answers)].ok) =>
          task_details = answers[Len(answers)].body

C7_Witness ==
    /\ pc = "tick"
    /\ Len(requested) = 3
    /\ answers[3].ok
    /\ ~answers[1].ok
    /\ ~answers[2].ok
    /\ Truthy(task_details)

\* the response of the last tick carries a top-level code field
CarriesCode == Truthy(task_details) /\ task_details.t = "dict" /\ HasKey(task_details, "code")

\* the top-level code of the response
TopCode == Item(task_details, "code")

\* C8 as stated: a tick whose response carries a top-level code that is
\* neither 200 nor 404 ends as Failed at the error-code check
C8_AnyOtherCodeFails ==
    (path # "none" /\ CarriesCode /\ TopCode \notin {Num(200), Num(404)})
        => (pc = "done" /\ path = "api_error" /\ ret = FALSE)

\* C8, amended: a tick whose response carries a top-level code with a truthy
\* value (not null, not 0) that is neither 200 nor 404 returns False at the
\* error-code check, before any status or audio-URL extraction, whatever
\* status the response carries; a falsy code is treated as no code
C8_TruthyOtherCodeFails ==
    [][ (pc = "tick" /\ CarriesCode /\ TopCode \notin {NullV, Num(0), Num(200), Num(404)})
            => /\ pc' = "done"
               /\ ret' = FALSE
               /\ return_site' = "api_error"
               /\ calls' = calls
               /\ UNCHANGED << status, audio_url, sleeps, checks >> ]_vars

C8_Witness ==
    /\ pc = "done"
    /\ return_site = "api_error"
    /\ TopCode = Num(500)
    /\ Get(Get(task_details, "data"), "status") = Str(S_SUCCESS)
    /\ HasKey(Get(task_details, "data"), "results")
    /\ calls.status_extract = 0
    /\ calls.url_search = 0

\* C9 as stated: a tick whose response carries the top-level code 404
\* reaches neither Succeeded nor Failed
C9_TransientCodeStaysPolling ==
    (path # "none" /\ CarriesCode /\ TopCode = Num(404))
        => path \notin {"download", "task_failed", "api_error"}

\* C9, amended: the code 404 does not end the poll at the error-code check;
\* the tick goes on to the status extraction and the status of the response
\* decides as it does without a code: Failed for an explicitly-failed
\* status, a download for a success-class status with an audio URL, and
\* Polling otherwise
C9_TransientCodeFallsThrough ==
    (path # "none" /\ CarriesCode /\ TopCode = Num(404)) =>
        /\ path # "api_error"
        /\ return_site # "api_error"
        /\ calls.status_extract > 0
        /\ (path = "task_failed") = (status \in FailedClass)
        /\ (path = "download") = (status \in SuccessClass /\ LooksLikeAudioUrl(audio_url))
        /\ (status \notin FailedClass /\ status \notin SuccessClass /\ path # "raised")
              => /\ path \in {"pending", "other"}
                 /\ return_site \in {"none", "exhausted"}

C9_Witness ==
    /\ CarriesCode
    /\ TopCode = Num(404)
    /\ path = "task_failed"
    /\ pc = "done"
    /\ ret = FALSE

\* C10: a tick with a success-class status from which no audio URL is
\* extracted stays in Polling (one attempt, one interval, no return), and
\* from there, with budget left, the next step is the next status check
C10_SuccessWithoutUrlStaysPolling ==
    [][ /\ (ExtractsStatus /\ status' \in SuccessClass /\ audio_url' = NullV)
              => StaysPolling
        /\ (pc = "loop" /\ path = "no_url" /\ checks < max_checks)
              => /\ pc' = "request"
                 /\ calls'.status_check = calls.status_check + 1 ]_vars

C10_Witness ==
    /\ pc = "request"
    /\ calls.status_check = 2
    /\ calls.url_search = 1
    /\ calls.download = 0
    /\ checks = 1
    /\ sleeps = <<check_interval>>


\* ------------------------------------------------------------------ main()
\* the JSON bodies a 200 answer of the submit endpoint may carry: the task id
\* under data (with and without the upstream's code), at the top level only,
\* empty, missing, and a null data
SubmitBodies ==
    { Dict(<<"data">>, <<Dict(<<"taskId">>, <<Str(T_abc123)>>)>>),
      Dict(<<"taskId">>, <<Str(T_abc123)>>),
      Dict(<<"data">>, <<Dict(<<"taskId">>, <<Str(<<>>)>>)>>),
      Dict(<<"data">>, <<EmptyDict>>),
      Dict(<<"code">>, <<Num(HTTP_OK)>>),
      Dict(<<"code", "data">>, <<Num(HTTP_OK), NullV>>) }

\* what the requests.post of generate_music can do
SubmitAnswers ==
    { [kind |-> "neterr", status_code |-> 0, body |-> NullV] }
    \cup { [kind |-> "resp", status_code |-> c, body |-> NullV] : c \in {401, 500} }
    \cup { [kind |-> "resp", status_code |-> HTTP_OK, body |-> b] : b \in SubmitBodies }

\* faulty variant: a task id at the top level is taken as well
SubmitTaskId_TopLevelToo(resp_json) ==
    LET nested == Get(GetOr(resp_json, "data", EmptyDict), "taskId")
    IN  IF Truthy(nested) THEN nested ELSE Get(resp_json, "taskId")

\* `resp_json.get('data', {}).get('taskId')`
SubmitTaskId(resp_json) == Get(GetOr(resp_json, "data", EmptyDict), "taskId")

\* that expression raises AttributeError when resp_json or its data is no dict
SubmitTaskIdRaises(resp_json) ==
    \/ resp_json.t # "dict"
    \/ GetOr(resp_json, "data", EmptyDict).t # "dict"

\* what generate_music returns for the answer r, when it returns
generate_music(r) ==
    IF r.kind = "neterr" THEN NullV
    ELSE IF r.status_code # HTTP_OK THEN NullV
    ELSE IF ~Truthy(SubmitTaskId(r.body)) THEN NullV
    ELSE r.body

\* the longest title the payload carries
TITLE_MAX == 80

\* faulty variant: the title goes out as it came in
TruncateTitle_KeepsAll(t) == t

\* `if len(title) > 80: title = title[:80]`
TruncateTitle(t) == IF Len(t) > TITLE_MAX THEN SubSeq(t, 1, TITLE_MAX) ELSE t

\* the payload of generate_music: "title": title if custom_mode else ""
Payload(t, custom_mode) ==
    [ built |-> TRUE,
      title |-> IF custom_mode THEN TruncateTitle(t) ELSE <<>>,
      customMode |-> custom_mode ]

\* the values of --checks and --interval main is run with
CliChecks == {1}
CliIntervals == {10}

\* main() in generation mode: the lyrics are generated, the prompt directory
\* is made, generate_music is about to be called. --skip-images has cleared
\* music_gen.dalle_enabled
MainInit ==
    /\ main_pc = "submit"
    /\ pc = "idle"
    /\ cli \in [ checks : CliChecks, interval : CliIntervals,
                  lyrics_title : Titles, custom : {TRUE}, skip_images : BOOLEAN,
                  check_task : {<<>>}, theme : {TRUE} ]
    /\ dalle_enabled \in {b \in BOOLEAN : cli.skip_images => ~b}
    /\ task_id = <<>>
    /\ max_checks = 0
    /\ check_interval = 0
    /\ title = <<>>
    /\ last_task_id_txt = <<>>
    /\ checks = 0
    /\ endpoint = 1
    /\ requested = <<>>
    /\ answers = <<>>
    /\ task_details = NullV
    /\ api_code = NullV
    /\ status = NullV
    /\ audio_url = NullV
    /\ path = "none"
    /\ retry_count = 0
    /\ max_retries = 0
    /\ output_file = "absent"
    /\ outcome = "none"
    /\ audio_success = FALSE
    /\ music_gen_response = NullV
    /\ submit_answer = NoAnswer
    /\ payload = NoPayload
    /\ other = NoOther
    /\ sleeps = <<>>
    /\ calls = NoCalls
    /\ ret = FALSE
    /\ return_site = "none"

poller == << pc, args, last_task_id_txt, checks, resolver, task_details,
             tick_locals, path, download_locals, sleeps, ret, return_site >>

\* music_gen.generate_music(...): one POST; the call returns the response or
\* None, or the task-id expression raises inside it
MainSubmit ==
    /\ main_pc = "submit"
    /\ \E r \in SubmitAnswers :
        /\ submit_answer' = r
        /\ payload' = Payload(cli.lyrics_title, cli.custom)
        /\ IF r.kind = "resp" /\ r.status_code = HTTP_OK /\ SubmitTaskIdRaises(r.body)
           THEN /\ main_pc' = "raised"
                /\ UNCHANGED music_gen_response
           ELSE /\ main_pc' = "submitted"
                /\ music_gen_response' = generate_music(r)
    /\ calls' = Bump(calls, "submit")
    /\ UNCHANGED << poller, cli, other >>

\* `task_id = music_gen_response.get('data', {}).get('taskId')`, `if not
\* task_id: ... return`, then monitor_and_download is called
MainTaskId ==
    /\ main_pc = "submitted"
    /\ IF SubmitTaskIdRaises(music_gen_response)
       THEN /\ main_pc' = "raised"
            /\ UNCHANGED poller
       ELSE LET tid == SubmitTaskId(music_gen_response)
            IN  IF ~Truthy(tid)
                THEN /\ main_pc' = "returned"
                     /\ UNCHANGED poller
                ELSE /\ main_pc' = "monitor"
                     /\ pc' = "start"
                     /\ task_id' = tid.s
                     /\ title' = cli.lyrics_title
                     /\ max_checks' = cli.checks
                     /\ check_interval' = cli.interval
                     /\ UNCHANGED << dalle_enabled, last_task_id_txt, checks, resolver,
                                     task_details, tick_locals, path, download_locals,
                                     sleeps, ret, return_site >>
    /\ UNCHANGED << music_gen_response, submit_answer, payload, cli, other, calls >>

\* monitor_and_download is over: its exception leaves main as well; else
\* `if audio_success and not args.skip_images` generate_images_with_dalle,
\* and main returns
MainAfterMonitor ==
    /\ main_pc = "monitor"
    /\ pc \in {"done", "crashed"}
    /\ IF pc = "crashed"
       THEN /\ main_pc' = "raised"
            /\ UNCHANGED calls
       ELSE /\ main_pc' = "returned"
            /\ calls' = IF ret /\ ~cli.skip_images THEN Bump(calls, "images") ELSE calls
    /\ UNCHANGED << poller, music_gen_response, submit_answer, payload, cli, other >>

MainNext ==
    \/ MainSubmit
    \/ MainTaskId
    \/ MainAfterMonitor
    \/ Next

MainSpec == MainInit /\ [][MainNext]_vars

\* ------------------------------------------------ main() from the command line
\* main() has parsed the command line and constructed music_gen; --skip-images
\* has cleared music_gen.dalle_enabled. check_task is the value of --check-task
\* (<<>>: not given), theme tells whether --theme was given. In
\* check-existing-task mode the file at --output may exist already
CliInit ==
    /\ main_pc = "parse"
    /\ pc = "idle"
    /\ cli \in [ checks : {0, 1}, interval : {5},
                  lyrics_title : { << "S", "o", "n", "g" >> }, custom : {TRUE},
                  skip_images : BOOLEAN, check_task : {<<>>, T_abc123},
                  theme : BOOLEAN ]
    /\ dalle_enabled \in {b \in BOOLEAN : cli.skip_images => ~b}
    /\ output_file \in IF cli.check_task # <<>> THEN {"absent", "nonempty"} ELSE {"absent"}
    /\ task_id = <<>>
    /\ max_checks = 0
    /\ check_interval = 0
    /\ title = <<>>
    /\ last_task_id_txt = <<>>
    /\ checks = 0
    /\ endpoint = 1
    /\ requested = <<>>
    /\ answers = <<>>
    /\ task_details = NullV
    /\ api_code = NullV
    /\ status = NullV
    /\ audio_url = NullV
    /\ path = "none"
    /\ retry_count = 0
    /\ max_retries = 0
    /\ outcome = "none"
    /\ audio_success = FALSE
    /\ music_gen_response = NullV
    /\ submit_answer = NoAnswer
    /\ payload = NoPayload
    /\ other = NoOther
    /\ sleeps = <<>>
    /\ calls = NoCalls
    /\ ret = FALSE
    /\ return_site = "none"

\* faulty variant: the poller is started whether the output file exists or not
MainParse_NoExistsCheck ==
    /\ main_pc = "parse"
    /\ IF cli.check_task # <<>>
       THEN /\ main_pc' = "check_task"
            /\ pc' = "start"
            /\ task_id' = cli.check_task
            /\ title' = <<>>
            /\ max_checks' = DEFAULT_MAX_CHECKS
            /\ check_interval' = DEFAULT_CHECK_INTERVAL
            /\ UNCHANGED << dalle_enabled, last_task_id_txt, checks, resolver,
                            task_details, tick_locals, path, download_locals,
                            sleeps, ret, return_site >>
       ELSE /\ main_pc' = IF cli.theme THEN "lyrics" ELSE "returned"
            /\ UNCHANGED poller
    /\ UNCHANGED << music_gen_response, submit_answer, payload, cli, other, calls >>

\* `if args.check_task:` the output file must exist, then
\* monitor_and_download(task_id, args.output) with its default budget and
\* interval and no title, `return`; else `if not args.theme: ... return`
MainParse ==
    /\ main_pc = "parse"
    /\ IF cli.check_task # <<>>
       THEN IF output_file = "absent"
            THEN /\ main_pc' = "returned"
                 /\ UNCHANGED poller
            ELSE /\ main_pc' = "check_task"
                 /\ pc' = "start"
                 /\ task_id' = cli.check_task
                 /\ title' = <<>>
                 /\ max_checks' = DEFAULT_MAX_CHECKS
                 /\ check_interval' = DEFAULT_CHECK_INTERVAL
                 /\ UNCHANGED << dalle_enabled, last_task_id_txt, checks, resolver,
                                 task_details, tick_locals, path, download_locals,
                                 sleeps, ret, return_site >>
       ELSE /\ main_pc' = IF cli.theme THEN "lyrics" ELSE "returned"
            /\ UNCHANGED poller
    /\ UNCHANGED << music_gen_response, submit_answer, payload, cli, other, calls >>

\* lyrics_gen.generate_lyrics(...): one call of the lyrics service, which
\* answers with the lyrics (their title is cli.lyrics_title) or raises; then
\* the prompt directory is made
MainLyrics ==
    /\ main_pc = "lyrics"
    /\ \E answered \in BOOLEAN :
        main_pc' = IF answered THEN "submit" ELSE "raised"
    /\ calls' = Bump(calls, "lyrics")
    /\ UNCHANGED << poller, music_gen_response, submit_answer, payload, cli, other >>

\* check-existing-task mode: monitor_and_download is over, its result is
\* dropped and main returns; its exception leaves main as well
MainCheckReturn ==
    /\ main_pc = "check_task"
    /\ pc \in {"done", "crashed"}
    /\ main_pc' = IF pc = "crashed" THEN "raised" ELSE "returned"
    /\ UNCHANGED << poller, music_gen_response, submit_answer, payload, cli, other, calls >>

CliNext ==
    \/ MainParse
    \/ MainLyrics
    \/ MainCheckReturn
    \/ MainNext

CliSpec == CliInit /\ [][CliNext]_vars

\* ------------------------------------------------------ generate_music alone
\* the longest title generate_music is given
MaxTitleLen == 82

\* a title of n characters
TitleOf(n) == [i \in 1..n |-> << "a", "b", "c", "d", "e", "f", "g" >>[(i % 7) + 1]]

\* generate_music(title, lyrics, style, custom_mode) is about to be called
\* with a title of any length up to MaxTitleLen, in either mode
SubmitInit ==
    /\ main_pc = "submit"
    /\ pc = "idle"
    /\ cli \in [ checks : CliChecks, interval : CliIntervals,
                  lyrics_title : { TitleOf(n) : n \in 0..MaxTitleLen },
                  custom : BOOLEAN, skip_images : {TRUE},
                  check_task : {<<>>}, theme : {TRUE} ]
    /\ dalle_enabled = FALSE
    /\ task_id = <<>>
    /\ max_checks = 0
    /\ check_interval = 0
    /\ title = <<>>
    /\ last_task_id_txt = <<>>
    /\ checks = 0
    /\ endpoint = 1
    /\ requested = <<>>
    /\ answers = <<>>
    /\ task_details = NullV
    /\ api_code = NullV
    /\ status = NullV
    /\ audio_url = NullV
    /\ path = "none"
    /\ retry_count = 0
    /\ max_retries = 0
    /\ output_file = "absent"
    /\ outcome = "none"
    /\ audio_success = FALSE
    /\ music_gen_response = NullV
    /\ submit_answer = NoAnswer
    /\ payload = NoPayload
    /\ other = NoOther
    /\ sleeps = <<>>
    /\ calls = NoCalls
    /\ ret = FALSE
    /\ return_site = "none"

SubmitNext == MainSubmit

SubmitSpec == SubmitInit /\ [][SubmitNext]_vars

\* ----------------------------------------------------- the extractors alone
U_audio == << "h","t","t","p",":","/","/","x","/","a","u","d","i","o","/","1" >>
U_ftp == << "f","t","p",":","/","/","x","/","y",".","m","p","3" >>
U_page == << "h","t","t","p",":","/","/","x","/","p","a","g","e" >>

\* scalar values of a response tree
Leaves ==
    { Str(U_mp3), Str(U_wav), Str(U_audio), Str(U_callback), Str(U_ftp),
      Str(U_page), Str(S_SUCCESS), Str(<<>>), Num(1), NullV }

\* URLs that pass the filter and two that do not
SomeUrls == { Str(U_mp3), Str(U_wav), Str(U_callback), Str(U_page) }

\* one-key maps the larger trees are built from
Cells ==
    { Dict(<<"audioUrl">>, <<Str(U_mp3)>>), Dict(<<"url">>, <<Str(U_wav)>>),
      Dict(<<"url">>, <<Str(U_callback)>>), Dict(<<"status">>, <<Str(S_SUCCESS)>>),
      Dict(<<"status">>, <<Str(<<>>)>>), Dict(<<"id">>, <<Num(1)>>) }

\* the trees the extractors are applied to: scalars; one-key maps; maps with
\* two aliases in either key order; an alias next to a nested map, in either
\* key order; maps and sequences of two one-key maps; deeper nestings
Trees ==
    Leaves
    \cup { Dict(<<k>>, <<v>>) :
             k \in {"audioUrl", "audio_url", "url", "mp3Url", "streamUrl",
                    "status", "callBackUrl"},
             v \in Leaves }
    \cup { Dict(ks, <<v1, v2>>) :
             ks \in { <<"audioUrl", "url">>, <<"url", "audioUrl">>,
                      <<"url", "streamUrl">>, <<"streamUrl", "url">>,
                      <<"audioUrl", "streamUrl">>, <<"streamUrl", "audioUrl">> },
             v1 \in SomeUrls, v2 \in SomeUrls }
    \cup { Dict(<<"data", k>>, <<c, v>>) : k \in {"url", "status"}, c \in Cells, v \in SomeUrls }
    \cup { Dict(<<k, "data">>, <<v, c>>) : k \in {"url", "status"}, c \in Cells, v \in SomeUrls }
    \cup { Dict(<<"a", "b">>, <<c1, c2>>) : c1 \in Cells, c2 \in Cells }
    \cup { List(<<c1, c2>>) : c1 \in Cells, c2 \in Cells }
    \cup { Dict(<<"data">>, <<Dict(<<"results">>, <<List(<<c>>)>>)>>) : c \in Cells }
    \cup { List(<<>>), EmptyDict, List(<<Num(1), List(<<Str(U_mp3)>>)>>) }

\* a response tree is at hand and no extractor has run on it
ExtractInit ==
    /\ pc = "extract"
    /\ task_details \in Trees
    /\ task_id \in TaskIds
    /\ max_checks = 0
    /\ check_interval = 10
    /\ title = <<>>
    /\ dalle_enabled = FALSE
    /\ last_task_id_txt = <<>>
    /\ checks = 0
    /\ endpoint = 1
    /\ requested = <<>>
    /\ answers = <<>>
    /\ api_code = NullV
    /\ status = NullV
    /\ audio_url = NullV
    /\ path = "none"
    /\ retry_count = 0
    /\ max_retries = 0
    /\ output_file = "absent"
    /\ outcome = "none"
    /\ audio_success = FALSE
    /\ main_pc = "none"
    /\ music_gen_response = NullV
    /\ submit_answer = NoAnswer
    /\ payload = NoPayload
    /\ cli = NoCli
    /\ other = NoOther
    /\ sleeps = <<>>
    /\ calls = NoCalls
    /\ ret = FALSE
    /\ return_site = "none"

\* audio_url = find_audio_url(task_details)
ApplyFindAudioUrl ==
    /\ pc = "extract"
    /\ calls.url_search = 0
    /\ audio_url' = find_audio_url(task_details)
    /\ calls' = Bump(calls, "url_search")
    /\ UNCHANGED << pc, args, main_locals, other, last_task_id_txt, checks, resolver,
                    task_details, api_code, status, path, download_locals, sleeps,
                    ret, return_site >>

\* status = find_status(task_details)
ApplyFindStatus ==
    /\ pc = "extract"
    /\ calls.status_extract = 0
    /\ status' = find_status(task_details)
    /\ calls' = Bump(calls, "status_extract")
    /\ UNCHANGED << pc, args, main_locals, other, last_task_id_txt, checks, resolver,
                    task_details, api_code, audio_url, path, download_locals, sleeps,
                    ret, return_site >>

ExtractNext ==
    \/ ApplyFindAudioUrl
    \/ ApplyFindStatus

ExtractSpec == ExtractInit /\ [][ExtractNext]_vars

\* ------------------------------- the standalone scripts: download_song.py,
\* check_status.py
S_complete == << "c","o","m","p","l","e","t","e" >>
S_finished == << "f","i","n","i","s","h","e","d" >>
S_success == << "s","u","c","c","e","s","s" >>
S_failed == << "f","a","i","l","e","d" >>
S_error == << "e","r","r","o","r" >>

\* download_song: `status in ['complete', 'finished', 'success', 'done']`
DsIsComplete(st) == st.t = "str" /\ st.s \in {S_complete, S_finished, S_success, S_done}

\* check_task_status: `status == 'complete' or status == 'finished' or
\* status == 'success'`
CsIsComplete(st) == st.t = "str" /\ st.s \in {S_complete, S_finished, S_success}

\* both scripts: 'failed' or 'error'
ScriptIsFailed(st) == st.t = "str" /\ st.s \in {S_failed, S_error}

\* the status extraction of download_song: data.status, then the top-level
\* status, for a dict; `.get` on a data that is no dict raises AttributeError
ds_status(td) ==
    IF td.t # "dict" THEN NullV
    ELSE LET data == GetOr(td, "data", EmptyDict)
         IN  IF data.t # "dict" THEN RaisedV
             ELSE IF Truthy(Get(data, "status")) THEN Get(data, "status")
             ELSE Get(td, "status")

\* the status extraction of check_task_status, inside try/except Exception:
\* an exception of the first statement leaves status None
cs_status(td) ==
    IF td.t # "dict" THEN NullV
    ELSE LET data == GetOr(td, "data", EmptyDict)
         IN  IF data.t # "dict" THEN NullV
             ELSE LET st1 == Get(data, "status")
                      st2 == IF ~Truthy(st1) THEN Get(td, "status") ELSE st1
                  IN  IF ~Truthy(st2) THEN find_status(td) ELSE st2

RECURSIVE cs_find_audio_url(_)
\* the find_audio_url nested in check_task_status: the value of the first
\* audioUrl or audio_url key, whatever it is
cs_find_audio_url(obj) ==
    IF obj.t = "dict"
    THEN IF HasKey(obj, "audioUrl") THEN Item(obj, "audioUrl")
         ELSE IF HasKey(obj, "audio_url") THEN Item(obj, "audio_url")
         ELSE FirstTruthy([i \in 1..Len(obj.kids) |-> cs_find_audio_url(obj.kids[i])])
    ELSE IF obj.t = "list"
    THEN FirstTruthy([i \in 1..Len(obj.kids) |-> cs_find_audio_url(obj.kids[i])])
    ELSE NullV

\* Python `a or b`
Or(a, b) == IF Truthy(a) THEN a ELSE b

\* the audio URL extraction of check_task_status for a dict whose data is a
\* dict or missing: data.results[0].audioUrl or .audio_url, then
\* data.audioUrl, then the recursive search; an exception (results that are
\* no sequence of maps) is caught and leaves audio_url None
cs_audio_url(td) ==
    LET data == GetOr(td, "data", EmptyDict)
        results == GetOr(data, "results", List(<<>>))
        u1 == IF Truthy(results)
              THEN Or(Get(results.kids[1], "audioUrl"), Get(results.kids[1], "audio_url"))
              ELSE NullV
        u2 == IF Truthy(u1) THEN u1 ELSE Get(data, "audioUrl")
    IN  IF Truthy(results) /\ (results.t # "list" \/ results.kids[1].t # "dict")
        THEN NullV
        ELSE IF Truthy(u2) THEN u2 ELSE cs_find_audio_url(td)

\* responses the scripts may get: those of the poller, and bodies with the
\* statuses the scripts compare with, without an URL, with one under
\* data.results or at the top level, passing the filter or not; results that
\* are no sequence of maps; a null data; an audioUrl that is no string
ScriptBodies ==
    Bodies
    \cup { MkBody(NullV, "data", Str(cs), up, u) :
             cs \in {S_complete, S_finished, S_success, S_failed, S_error},
             up \in {"none", "results", "top"},
             u \in UrlValues }
    \cup { Dict(<<"data">>, <<Dict(<<"status", "results">>, <<Str(S_complete), r>>)>>) :
             r \in { Num(1), List(<<Str(U_mp3)>>), List(<<>>) } }
    \cup { Dict(<<"data", "status">>, <<NullV, Str(S_complete)>>),
           Dict(<<"data">>, <<Dict(<<"status", "audioUrl">>, <<Str(S_complete), Num(1)>>)>>) }

\* download_song(task_id, output_file, check_interval, max_checks) is at its
\* loop head with no output file in the way, or check_task_status(task_id,
\* output_file) has been called
ScriptsInit ==
    /\ pc \in {"download_song:loop", "check_status:start"}
    /\ task_id \in TaskIds
    /\ max_checks \in IF pc = "download_song:loop" THEN 0..MaxChecks ELSE {0}
    /\ check_interval = 10
    /\ title = <<>>
    /\ dalle_enabled = FALSE
    /\ last_task_id_txt = <<task_id>>
    /\ checks = 0
    /\ endpoint = 1
    /\ requested = <<>>
    /\ answers = <<>>
    /\ task_details = NullV
    /\ api_code = NullV
    /\ status = NullV
    /\ audio_url = NullV
    /\ path = "none"
    /\ retry_count = 0
    /\ max_retries = 0
    /\ output_file = "absent"
    /\ outcome = "none"
    /\ audio_success = FALSE
    /\ main_pc = "none"
    /\ music_gen_response = NullV
    /\ submit_answer = NoAnswer
    /\ payload = NoPayload
    /\ cli = NoCli
    /\ other = NoOther
    /\ sleeps = <<>>
    /\ calls = NoCalls
    /\ ret = FALSE
    /\ return_site = "none"

\* what a script's step leaves behind: where the script stands, the branch
\* taken, the status and URL extracted, the value returned, whether the
\* interval was slept (checks += 1; time.sleep(check_interval)), the output
\* file, and how many downloads were started
ScriptStep(newpc, p, st, url, r, site, slept, f, started) ==
    /\ pc' = newpc
    /\ path' = p
    /\ status' = st
    /\ audio_url' = url
    /\ ret' = r
    /\ return_site' = site
    /\ checks' = IF slept THEN checks + 1 ELSE checks
    /\ sleeps' = IF slept THEN Append(sleeps, check_interval) ELSE sleeps
    /\ output_file' = f
    /\ calls' = IF started THEN Bump(calls, "download") ELSE calls
    /\ UNCHANGED << args, main_locals, other, last_task_id_txt, resolver, task_details,
                    api_code, retry_count, max_retries, outcome, audio_success >>

\* download_song, loop head: get_task_details(task_id) returns a response or
\* None; after max_checks ticks "Exceeded maximum checks", return False
DownloadSongLoop ==
    /\ pc = "download_song:loop"
    /\ IF checks < max_checks
       THEN /\ \E b \in ScriptBodies : task_details' = b
            /\ pc' = "download_song:tick"
            /\ calls' = Bump(calls, "status_check")
            /\ UNCHANGED << ret, return_site >>
       ELSE /\ pc' = "download_song:returned"
            /\ ret' = FALSE
            /\ return_site' = "exhausted"
            /\ UNCHANGED << task_details, calls >>
    /\ UNCHANGED << args, main_locals, other, last_task_id_txt, checks, resolver,
                    tick_locals, path, download_locals, sleeps >>

\* download_song, one tick on the response: status extraction, the
\* comparison with the script's own status words, find_audio_url (the same
\* function as in main.py) and download_file, whose result is success
DownloadSongTick ==
    /\ pc = "download_song:tick"
    /\ LET st == ds_status(task_details)
           url == find_audio_url(task_details)
       IN  IF ~Truthy(task_details)
           THEN ScriptStep("download_song:loop", "no_details", NullV, NullV, ret,
                           return_site, TRUE, output_file, FALSE)
           ELSE IF st.t = "raised"
           THEN ScriptStep("download_song:raised", "raised", NullV, NullV, ret,
                           return_site, FALSE, output_file, FALSE)
           ELSE IF DsIsComplete(st)
           THEN IF Truthy(url)
                THEN \E success \in BOOLEAN :
                       IF success
                       THEN ScriptStep("download_song:returned", "download", st, url,
                                       TRUE, "download", FALSE, "nonempty", TRUE)
                       ELSE ScriptStep("download_song:loop", "download", st, url, ret,
                                       return_site, TRUE, output_file, TRUE)
                ELSE ScriptStep("download_song:loop", "no_url", st, url, ret,
                                return_site, TRUE, output_file, FALSE)
           ELSE IF ScriptIsFailed(st)
           THEN ScriptStep("download_song:returned", "task_failed", st, NullV, FALSE,
                           "task_failed", FALSE, output_file, FALSE)
           ELSE ScriptStep("download_song:loop", "pending", st, NullV, ret,
                           return_site, TRUE, output_file, FALSE)

\* check_task_status, the endpoint loop: the first 200 answer is the
\* response, None when no endpoint answers 200
CheckStatusResolve ==
    /\ pc = "check_status:start"
    /\ \E b \in ScriptBodies : task_details' = b
    /\ pc' = "check_status:tick"
    /\ calls' = Bump(calls, "status_check")
    /\ UNCHANGED << args, main_locals, other, last_task_id_txt, checks, resolver,
                    tick_locals, path, download_locals, sleeps, ret, return_site >>

\* check_task_status on the response: status extraction, the comparison
\* with the script's own status words, the URL extraction, and one
\* requests.get(audio_url) that answers 200 (the file is written, True),
\* answers another code (False) or raises; it raises for what is no http URL
CheckTaskStatus ==
    /\ pc = "check_status:tick"
    /\ LET st == cs_status(task_details)
           url == cs_audio_url(task_details)
       IN  IF ~Truthy(task_details)
           THEN ScriptStep("check_status:returned", "no_details", NullV, NullV, FALSE,
                           "no_details", FALSE, output_file, FALSE)
           ELSE IF CsIsComplete(st)
           THEN IF Truthy(url)
                THEN \E o \in {"ok", "http_error", "raise"} :
                       /\ (url.t # "str" \/ ~StartsWith(url.s, S_http)) => o = "raise"
                       /\ IF o = "raise"
                          THEN ScriptStep("check_status:raised", "download", st, url, ret,
                                          return_site, FALSE, output_file, TRUE)
                          ELSE ScriptStep("check_status:returned", "download", st, url,
                                          o = "ok", "download", FALSE,
                                          IF o = "ok" THEN "nonempty" ELSE output_file,
                                          TRUE)
                ELSE ScriptStep("check_status:returned", "no_url", st, url, FALSE,
                                "no_url", FALSE, output_file, FALSE)
           ELSE IF ScriptIsFailed(st)
           THEN ScriptStep("check_status:returned", "task_failed", st, NullV, FALSE,
                           "task_failed", FALSE, output_file, FALSE)
           ELSE ScriptStep("check_status:returned", "pending", st, NullV, FALSE,
                           "pending", FALSE, output_file, FALSE)

ScriptsNext ==
    \/ DownloadSongLoop
    \/ DownloadSongTick
    \/ CheckStatusResolve
    \/ CheckTaskStatus

ScriptsSpec == ScriptsInit /\ [][ScriptsNext]_vars

\* ------------------------------------------- two calls of monitor_and_download
\* the task the second call polls, and the largest number of ticks it makes
T_def456 == << "d", "e", "f", "4", "5", "6" >>
OtherMaxChecks == 1

\* two independent calls of monitor_and_download are about to run, each with
\* its own task id; the second is followed only through its entry, its ticks
\* and its return
ConcInit ==
    /\ pc = "start"
    /\ task_id = T_abc123
    /\ max_checks = 1
    /\ check_interval = 10
    /\ title = <<>>
    /\ dalle_enabled = FALSE
    /\ last_task_id_txt = <<>>
    /\ checks = 0
    /\ endpoint = 1
    /\ requested = <<>>
    /\ answers = <<>>
    /\ task_details = NullV
    /\ api_code = NullV
    /\ status = NullV
    /\ audio_url = NullV
    /\ path = "none"
    /\ retry_count = 0
    /\ max_retries = 0
    /\ output_file = "absent"
    /\ outcome = "none"
    /\ audio_success = FALSE
    /\ main_pc = "none"
    /\ music_gen_response = NullV
    /\ submit_answer = NoAnswer
    /\ payload = NoPayload
    /\ cli = NoCli
    /\ other = [ pc |-> "start", task_id |-> T_def456, checks |-> 0 ]
    /\ sleeps = <<>>
    /\ calls = NoCalls
    /\ ret = FALSE
    /\ return_site = "none"

\* faulty variant: the attempt counter is kept where both calls reach it
OtherEnter_SharedCounter ==
    /\ other.pc = "start"
    /\ last_task_id_txt' = << other.task_id >>
    /\ other' = [other EXCEPT !.pc = "loop", !.checks = 0]
    /\ checks' = 0
    /\ UNCHANGED << pc, args, main_locals, resolver, task_details, tick_locals,
                    path, download_locals, sleeps, calls, ret, return_site >>

\* the entry of the second call: its task id is written to last_task_id.txt
OtherEnter ==
    /\ other.pc = "start"
    /\ last_task_id_txt' = << other.task_id >>
    /\ other' = [other EXCEPT !.pc = "loop", !.checks = 0]
    /\ UNCHANGED << pc, args, main_locals, checks, resolver, task_details,
                    tick_locals, path, download_locals, sleeps, calls, ret,
                    return_site >>

\* a tick of the second call that stays in the loop
OtherTick ==
    /\ other.pc = "loop"
    /\ other.checks < OtherMaxChecks
    /\ other' = [other EXCEPT !.checks = @ + 1]
    /\ UNCHANGED << poller, main_locals, calls >>

\* the second call returns: from a tick, or at the end of its loop
OtherReturn ==
    /\ other.pc = "loop"
    /\ other' = [other EXCEPT !.pc = "done"]
    /\ UNCHANGED << poller, main_locals, calls >>

ConcNext ==
    \/ Next
    \/ OtherEnter
    \/ OtherTick
    \/ OtherReturn

ConcSpec == ConcInit /\ [][ConcNext]_vars

\* the waits 2^0, 2^1, ..., 2^(n-1), in that order
Doubling(n) == [i \in 1..n |-> 2 ^ (i - 1)]

\* the current step is one attempt of the download loop
IsAttempt == pc = "download" /\ calls'.download_attempt = calls.download_attempt + 1

\* C11: when the download fails on its first N-1 attempts and succeeds on the
\* N-th (N <= max_retries), the call returns True after exactly N attempts,
\* makes no attempt after that one, and has slept 2^0, 2^1, ..., 2^(N-2)
\* between the attempts, in that order
C11_SucceedsOnNthAttempt ==
    [][ /\ (IsAttempt /\ outcome' = "ok") =>
              /\ pc' = "downloaded"
              /\ audio_success' = TRUE
              /\ calls'.download_attempt <= max_retries
              /\ sleeps' = Doubling(calls'.download_attempt - 1)
        /\ pc = "downloaded" => calls'.download_attempt = calls.download_attempt
        /\ (IsAttempt /\ outcome' # "ok") =>
              /\ pc' = "download"
              /\ sleeps' = Doubling(calls'.download_attempt) ]_vars

C11_Witness ==
    /\ pc = "downloaded"
    /\ audio_success = TRUE
    /\ calls.download_attempt = 4
    /\ sleeps = << 1, 2, 4 >>

\* C12: True is returned only for an attempt that completed without raising
\* and left a non-empty file; an attempt that completes with a zero-byte file
\* is a failure and is retried; after max_retries failed attempts in a row
\* the call returns False, having made exactly max_retries attempts
C12_TrueOnlyForNonEmptyFile ==
    /\ (pc = "downloaded" /\ audio_success) =>
          /\ outcome = "ok"
          /\ output_file = "nonempty"
    /\ (pc = "download" /\ outcome = "empty") =>
          /\ retry_count > 0
          /\ calls.download_attempt = retry_count
    /\ (pc = "downloaded" /\ ~audio_success) =>
          /\ calls.download_attempt = max_retries
          /\ retry_count = max_retries
          /\ outcome # "ok"

C12_Witness ==
    /\ pc = "downloaded"
    /\ ~audio_success
    /\ max_retries = 3
    /\ calls.download_attempt = 3
    /\ outcome = "empty"
    /\ output_file = "empty"


\* the submit endpoint answered 200 with this body
SubmitAnswered(b) ==
    /\ submit_answer.kind = "resp"
    /\ submit_answer.status_code = 200
    /\ submit_answer.body = b

\* C13: after a successful submission the task id is in last_task_id.txt
\* before the first status-check request is issued, and the file holds
\* exactly the submitted id: abc123 for {"data": {"taskId": "abc123"}}
C13_HandleSavedBeforeFirstCheck ==
    /\ (calls.status_check > 0 \/ calls.http_get > 0 \/ pc \in {"loop", "request", "tick"}) =>
          /\ submit_answer.kind = "resp"
          /\ last_task_id_txt = << Item(Item(submit_answer.body, "data"), "taskId").s >>
    /\ (SubmitAnswered(Dict(<<"data">>, <<Dict(<<"taskId">>, <<Str(<<"a","b","c","1","2","3">>)>>)>>))
          /\ pc \notin {"idle", "start"}) =>
          last_task_id_txt = << <<"a","b","c","1","2","3">> >>

C13_Witness ==
    /\ SubmitAnswered(Dict(<<"data">>, <<Dict(<<"taskId">>, <<Str(<<"a","b","c","1","2","3">>)>>)>>))
    /\ pc = "request"
    /\ calls.status_check = 1
    /\ calls.http_get = 0
    /\ last_task_id_txt = << <<"a","b","c","1","2","3">> >>

\* a 200 answer that carries the task id at the top level and has no data
TopLevelOnly ==
    /\ submit_answer.kind = "resp"
    /\ submit_answer.status_code = 200
    /\ ~HasKey(submit_answer.body, "data")
    /\ HasKey(submit_answer.body, "taskId")
    /\ Truthy(Item(submit_answer.body, "taskId"))

\* C14 as stated: a 200 answer {"taskId": t} without data is a successful
\* submission with handle t
C14_TopLevelTaskIdAccepted ==
    (TopLevelOnly /\ main_pc # "submit") =>
        /\ music_gen_response = submit_answer.body
        /\ main_pc \in {"submitted", "monitor", "returned"}

\* C14, amended: generate_music takes the task id only from under data; a
\* 200 answer {"taskId": t} without data is a failed submission (None is
\* returned, "Task ID not found in response")
C14_OnlyNestedTaskIdAccepted ==
    /\ (main_pc # "submit" /\ music_gen_response # NullV) =>
          /\ submit_answer.kind = "resp"
          /\ submit_answer.status_code = 200
          /\ music_gen_response = submit_answer.body
          /\ HasKey(submit_answer.body, "data")
          /\ HasKey(Item(submit_answer.body, "data"), "taskId")
          /\ Truthy(Item(Item(submit_answer.body, "data"), "taskId"))
    /\ (TopLevelOnly /\ main_pc # "submit") =>
          /\ music_gen_response = NullV
          /\ pc = "idle"
          /\ calls.status_check = 0

C14_Witness ==
    /\ TopLevelOnly
    /\ main_pc = "submitted"
    /\ music_gen_response = NullV

\* the submission was fatal: a network error, a non-200 answer, or a 200
\* answer without a task id
SubmitFatal ==
    \/ submit_answer.kind = "neterr"
    \/ submit_answer.kind = "resp" /\ submit_answer.status_code # 200
    \/ /\ submit_answer.kind = "resp"
       /\ submit_answer.status_code = 200
       /\ submit_answer.body.t = "dict"
       /\ \/ ~HasKey(submit_answer.body, "data")
          \/ /\ Item(submit_answer.body, "data").t = "dict"
             /\ ~Truthy(Get(Item(submit_answer.body, "data"), "taskId"))

\* C15: after a fatal submission main returns without raising, the resume
\* file is not written and no status check is issued
C15_FatalSubmitReturns ==
    (SubmitFatal /\ main_pc # "submitted") =>
        /\ main_pc = "returned"
        /\ last_task_id_txt = <<>>
        /\ calls.status_check = 0
        /\ calls.http_get = 0


\* the five aliases, in the order the claims give them
AliasOrder == << "audioUrl", "audio_url", "url", "mp3Url", "streamUrl" >>
AliasSet == { AliasOrder[i] : i \in 1..Len(AliasOrder) }
JsonTypes == {"null", "num", "str", "list", "dict"}

RECURSIVE KeysOf(_)
\* every key of every map of the tree
KeysOf(t) ==
    IF t.t \in {"dict", "list"}
    THEN { t.keys[i] : i \in 1..Len(t.keys) }
            \cup UNION { KeysOf(t.kids[i]) : i \in 1..Len(t.kids) }
    ELSE {}

RECURSIVE AliasValues(_)
\* every value that stands under one of the five aliases, at any depth
AliasValues(t) ==
    IF t.t \in {"dict", "list"}
    THEN { t.kids[i] : i \in { j \in 1..Len(t.keys) : t.keys[j] \in AliasSet } }
            \cup UNION { AliasValues(t.kids[i]) : i \in 1..Len(t.kids) }
    ELSE {}

UrlSearched == pc = "extract" /\ calls.url_search = 1
StatusSearched == pc = "extract" /\ calls.status_extract = 1

\* C16: find_audio_url returns only a string that begins with http and holds
\* .mp3, .wav or /audio/, and returns None for every tree in which no value
\* under one of the five aliases passes that filter
C16_OnlyFilteredUrls ==
    UrlSearched =>
        /\ audio_url = NullV \/ LooksLikeAudioUrl(audio_url)
        /\ (\A v \in AliasValues(task_details) : ~LooksLikeAudioUrl(v)) => audio_url = NullV

C16_Witness ==
    /\ UrlSearched
    /\ task_details = Dict(<<"url">>, <<Str(U_callback)>>)
    /\ audio_url = NullV

\* C17: on every tree of maps, sequences and scalars both extractors return
\* a value (nothing is raised), and None when no map of the tree, at any
\* depth, has a matching key
C17_TotalAndNoneWithoutField ==
    /\ UrlSearched =>
          /\ audio_url.t \in JsonTypes
          /\ KeysOf(task_details) \cap AliasSet = {} => audio_url = NullV
    /\ StatusSearched =>
          /\ status.t \in JsonTypes
          /\ "status" \notin KeysOf(task_details) => status = NullV

C17_Witness ==
    /\ UrlSearched
    /\ StatusSearched
    /\ task_details = List(<<Dict(<<"id">>, <<Num(1)>>), Dict(<<"id">>, <<Num(1)>>)>>)
    /\ audio_url = NullV
    /\ status = NullV

\* the aliases that pass the filter as direct keys of the map t, by rank
OwnLevelRanks(t) ==
    { i \in 1..Len(AliasOrder) :
        HasKey(t, AliasOrder[i]) /\ LooksLikeAudioUrl(Item(t, AliasOrder[i])) }

\* the children of t, by position, under which a URL is found
ChildHits(t) == { i \in 1..Len(t.kids) : find_audio_url(t.kids[i]) # NullV }

Least(S) == CHOOSE i \in S : \A j \in S : i <= j

\* C18: at a map the aliases are tried as direct keys in the order audioUrl,
\* audio_url, url, mp3Url, streamUrl before any child is entered; when none
\* passes, the children are searched in key order (sequence elements in index
\* order) and the first result found is returned. An URL under an alias at a
\* map's own level wins over every URL nested in its children
C18_AliasPriorityThenDepthFirst ==
    UrlSearched =>
        LET t == task_details
        IN  /\ (t.t = "dict" /\ OwnLevelRanks(t) # {}) =>
                  audio_url = Item(t, AliasOrder[Least(OwnLevelRanks(t))])
            /\ (t.t = "list" \/ (t.t = "dict" /\ OwnLevelRanks(t) = {})) =>
                  audio_url = IF ChildHits(t) = {} THEN NullV
                              ELSE find_audio_url(t.kids[Least(ChildHits(t))])

C18_Witness ==
    /\ UrlSearched
    /\ task_details = Dict(<<"data", "url">>,
                           <<Dict(<<"audioUrl">>, <<Str(U_mp3)>>), Str(U_wav)>>)
    /\ audio_url = Str(U_wav)


OwnState ==
    << pc, args, checks, resolver, task_details, tick_locals, path,
       download_locals, sleeps, calls, ret, return_site >>

BothEntered == pc # "start" /\ other.pc # "start"
FirstWrites == pc = "start" /\ pc' = "loop"
SecondWrites == other.pc = "start" /\ other'.pc = "loop"

\* C21: the resume file is one slot, last write wins: whatever the order in
\* which the runs write, the file holds exactly one task id, that of the run
\* that wrote last, and nothing of the ids written before; a run that is
\* still polling may find the other run's id in it
C21_SingleSlotLastWriteWins ==
    [][ /\ FirstWrites => last_task_id_txt' = << << "a", "b", "c", "1", "2", "3" >> >>
        /\ SecondWrites => last_task_id_txt' = << << "d", "e", "f", "4", "5", "6" >> >>
        /\ BothEntered' =>
              /\ Len(last_task_id_txt') = 1
              /\ (~FirstWrites /\ ~SecondWrites) => last_task_id_txt' = last_task_id_txt ]_vars

C21_Witness ==
    /\ BothEntered
    /\ pc = "request"
    /\ checks = 0
    /\ other.pc = "done"
    /\ last_task_id_txt = << << "d", "e", "f", "4", "5", "6" >> >>


\* C22: when the image stage is disabled because DALLE_API_KEY is unset
\* (dalle_enabled is False and --skip-images was not given), no image
\* generation is requested at any point of the run of main
C22_DisabledImageStageSkipped ==
    (main_pc # "none" /\ ~dalle_enabled /\ ~cli.skip_images) => calls.images = 0

\* C30: in a run of main the stages run in the order submit, poll, download,
\* image generation, each at most once; generate_images_with_dalle is called
\* at most once
C30_EachStageAtMostOnce ==
    main_pc # "none" =>
        /\ calls.submit <= 1
        /\ calls.download <= 1
        /\ calls.images <= 1
        /\ calls.status_check > 0 => calls.submit = 1
        /\ calls.download > 0 => calls.status_check > 0
        /\ calls.images > 0 => (calls.download = 1 /\ pc = "done")


\* C23: the title of the submitted payload is never longer than 80
\* characters, and for a title longer than 80 in custom mode it is exactly
\* the first 80 characters of that title
C23_TitleAtMost80 ==
    payload.built =>
        /\ Len(payload.title) <= 80
        /\ (Len(cli.lyrics_title) > 80 /\ cli.custom) =>
              /\ Len(payload.title) = 80
              /\ \A i \in 1..80 : payload.title[i] = cli.lyrics_title[i]

C23_Witness ==
    /\ payload.built
    /\ cli.custom
    /\ Len(cli.lyrics_title) = 82
    /\ Len(payload.title) = 80
    /\ submit_answer.kind = "resp"


C25_EndsInOneOfThree ==
    <>(/\ pc = "done"
       /\ return_site \in {"download", "api_error", "task_failed", "exhausted"})


\* the response has a status at its top level and another under data
HasBothStatuses ==
    /\ task_details.t = "dict"
    /\ HasKey(task_details, "status")
    /\ HasKey(task_details, "data")
    /\ Item(task_details, "data").t = "dict"
    /\ HasKey(Item(task_details, "data"), "status")

\* C26 as stated: with a status at the top level and another under data, the
\* top-level value is the one the tick uses
C26_TopLevelStatusUsed ==
    [][ (ExtractsStatus /\ HasBothStatuses) =>
            status' = Item(task_details, "status") ]_vars

\* C26, amended: the status under data is the one the tick uses; the
\* top-level status is used only when data.status is missing or empty
C26_DataStatusUsedFirst ==
    [][ (ExtractsStatus /\ HasBothStatuses) =>
            LET nested == Item(Item(task_details, "data"), "status")
            IN  status' = IF nested.t = "str" /\ nested.s # <<>>
                          THEN nested
                          ELSE Item(task_details, "status") ]_vars

C26_Witness ==
    /\ pc = "download"
    /\ HasBothStatuses
    /\ Item(task_details, "status") = Str(S_PENDING)
    /\ status = Str(S_SUCCESS)

\* the response is one the status extraction has to tolerate: a non-empty
\* sequence at the top level, or a data that is null, a scalar or a sequence
TypeMismatch ==
    \/ task_details.t = "list" /\ task_details.kids # <<>>
    \/ /\ task_details.t = "dict"
       /\ HasKey(task_details, "data")
       /\ Item(task_details, "data").t # "dict"

\* C27: on such a response the tick completes, and the poller stays in
\* Polling or ends, without an exception escaping
C27_NoRaiseOnTypeMismatch ==
    [][ (pc = "tick" /\ TypeMismatch) => pc' \in {"loop", "download", "done"} ]_vars


\* {"data": {"status": "SUCCESS", "results": [{"audioUrl": "http://x/y.mp3"}]}}
ExampleBody ==
    Dict(<<"data">>,
         <<Dict(<<"status", "results">>,
                <<Str(S_SUCCESS), List(<<Dict(<<"audioUrl">>, <<Str(U_mp3)>>)>>)>>)>>)

\* C28: a tick that sees a success-class status and a valid audio URL calls
\* download_music in that same step, with the URL find_audio_url returns for
\* the response of that tick; the URL is not changed while the download runs
C28_UrlHandedInSameTick ==
    [][ /\ (ExtractsStatus /\ status' \in SuccessClass
                           /\ LooksLikeAudioUrl(find_audio_url(task_details))) =>
              /\ pc' = "download"
              /\ calls'.download = calls.download + 1
              /\ audio_url' = find_audio_url(task_details)
              /\ calls'.status_check = calls.status_check
              /\ UNCHANGED << task_details, checks, sleeps >>
        /\ (calls'.download # calls.download) =>
              /\ pc = "tick"
              /\ audio_url' = find_audio_url(task_details')
        /\ (pc = "tick" /\ task_details = ExampleBody) =>
              /\ pc' = "download"
              /\ audio_url' = Str(U_mp3)
        /\ (pc \in {"download", "downloaded"}) => audio_url' = audio_url ]_vars

C28_Witness ==
    /\ pc = "download"
    /\ task_details = ExampleBody
    /\ audio_url = Str(U_mp3)
    /\ calls.download = 1
    /\ calls.status_check = 1

\* C29: download_music is called at most once; once it has been called no
\* status check and no request follows and the attempt counter stays; the
\* call returns what download_music returned
C29_DownloadEndsThePoll ==
    /\ [](calls.download <= 1)
    /\ []((pc = "done" /\ calls.download = 1) =>
              (return_site = "download" /\ ret = audio_success))
    /\ [][ calls.download = 1 =>
              /\ calls'.download = 1
              /\ calls'.status_check = calls.status_check
              /\ calls'.http_get = calls.http_get
              /\ checks' = checks
              /\ pc' \in {"download", "downloaded", "done"} ]_vars

C29_Witness ==
    /\ pc = "done"
    /\ return_site = "download"
    /\ ret = FALSE
    /\ retry_count = DefaultMaxRetries
    /\ checks = 0
    /\ max_checks = 2


\* C31: the resume file changes only in the entry step of the call; when the
\* call has ended, whether exhausted, failed, after a download or with an
\* exception, the file holds the handle that was polled
C31_ResumeFileWrittenOnceAtEntry ==
    /\ [][ last_task_id_txt' # last_task_id_txt => (pc = "start" /\ pc' = "loop") ]_vars
    /\ []((pc # "start") => last_task_id_txt = <<task_id>>)

C31_Witness ==
    /\ pc = "done"
    /\ return_site = "exhausted"
    /\ checks = 2
    /\ status = Str(S_PENDING)
    /\ last_task_id_txt = <<T_abc123>>


\* C32 as stated: in every mode of main the poller runs with the budget and
\* the interval of the command line, and makes at most --checks status checks
C32_CliBoundsEveryMode ==
    (main_pc \in {"monitor", "check_task"}) =>
        /\ max_checks = cli.checks
        /\ check_interval = cli.interval
        /\ calls.status_check <= cli.checks

ScriptClassified ==
    /\ pc \in {"download_song:loop", "download_song:returned", "download_song:raised",
                "check_status:returned", "check_status:raised"}
    /\ path \notin {"none", "no_details", "raised"}

\* C33 as stated: the standalone scripts take SUCCESS and FIRST_SUCCESS for
\* success-class (the audio URL is searched, and downloaded when found) and
\* the four failed statuses for Failed (False is returned), as
\* monitor_and_download does
C33_ScriptsClassifyAsPoller ==
    ScriptClassified =>
        /\ (status \in SuccessClass) => path \in {"download", "no_url"}
        /\ (status \in FailedClass) => (path = "task_failed" /\ ret = FALSE)

\* C34 as stated: the URL check_task_status downloads from is a string that
\* begins with http and holds .mp3, .wav or /audio/
C34_CheckStatusUrlPassesFilter ==
    (pc \in {"check_status:returned", "check_status:raised"} /\ path = "download")
        => LooksLikeAudioUrl(audio_url)


RECURSIVE TotalSlept(_)
\* the sum of a sequence of sleeps
TotalSlept(s) == IF s = <<>> THEN 0 ELSE s[1] + TotalSlept(Tail(s))

\* 2^0, 2^1, ..., written out
PowersOfTwo == << 1, 2, 4, 8, 16, 32, 64 >>

\* C35: a download that returns False has made exactly max_retries attempts
\* and has slept after each of them, the last one included: max_retries
\* sleeps of 2^0, 2^1, ..., 2^(max_retries-1), 2^max_retries - 1 in total;
\* with max_retries = 0 it returns False with no attempt and no sleep
C35_SleepsAfterEveryFailedAttempt ==
    (pc = "downloaded" /\ ~audio_success) =>
        /\ calls.download_attempt = max_retries
        /\ Len(sleeps) = max_retries
        /\ \A i \in 1..Len(sleeps) : sleeps[i] = PowersOfTwo[i]
        /\ TotalSlept(sleeps) = PowersOfTwo[max_retries + 1] - 1
        /\ (max_retries = 0) => (sleeps = <<>> /\ outcome = "none")

C35_Witness ==
    /\ pc = "downloaded"
    /\ ~audio_success
    /\ max_retries = 4
    /\ calls.download_attempt = 4
    /\ sleeps = << 1, 2, 4, 8 >>
    /\ outcome = "raise"

====
